---- MODULE Spec2Model ----
(***************************************************************************)
(* A model of schema-forge (src/src/index.js): the value normalizers, the  *)
(* value classifier, the date format guesser, the column accumulator and   *)
(* schema resolver of getSchema, and the dataset formatter dataFormat.     *)
(*                                                                         *)
(* JavaScript strings are sequences of one-character tokens; the currency  *)
(* signs outside ASCII are the tokens "euro" and "pound".  JavaScript      *)
(* values are records of one shape (t is the typeof tag), numbers are      *)
(* exact decimals num/den with den a power of ten (den = 0 is Infinity).   *)
(***************************************************************************)
EXTENDS Integers, Sequences, FiniteSets, TLC

VARIABLES universe, options, rows, acc, usedSanitized, originalToSanitized,
          pc, results, out, out2, json, arg, ret

vars == <<universe, options, rows, acc, usedSanitized, originalToSanitized,
          pc, results, out, out2, json, arg, ret>>

(***************************************************************************)
(* Bounds of the model.                                                    *)
(***************************************************************************)
MaxRows == 3

MaxCells == 3

(***************************************************************************)
(* Characters and strings.                                                 *)
(***************************************************************************)
Digits == <<"0", "1", "2", "3", "4", "5", "6", "7", "8", "9">>

UpperLetters == <<"A", "B", "C", "D", "E", "F", "G", "H", "I", "J", "K", "L", "M",
                  "N", "O", "P", "Q", "R", "S", "T", "U", "V", "W", "X", "Y", "Z">>

LowerLetters == <<"a", "b", "c", "d", "e", "f", "g", "h", "i", "j", "k", "l", "m",
                  "n", "o", "p", "q", "r", "s", "t", "u", "v", "w", "x", "y", "z">>

Range(f) == {f[i] : i \in DOMAIN f}

IsDigit(c) == c \in Range(Digits)

IsUpper(c) == c \in Range(UpperLetters)

IsLower(c) == c \in Range(LowerLetters)

IsAlnum(c) == IsDigit(c) \/ IsUpper(c) \/ IsLower(c)

\* the \s class of JavaScript regular expressions, as far as the model's
\* characters go
IsSpace(c) == c \in {" ", "\t", "\n", "nbsp", "bom"}

DigitVal(c) == (CHOOSE i \in 1..10 : Digits[i] = c) - 1

ToLowerChar(c) == IF IsUpper(c) THEN LowerLetters[CHOOSE i \in 1..26 : UpperLetters[i] = c] ELSE c

ToLower(s) == [i \in 1..Len(s) |-> ToLowerChar(s[i])]

AllDigits(s) == \A i \in 1..Len(s) : IsDigit(s[i])

Drop(s, n) == SubSeq(s, n + 1, Len(s))

Take(s, n) == SubSeq(s, 1, n)

Last(s) == s[Len(s)]

EndsWith(s, suffix) ==
    /\ Len(s) >= Len(suffix)
    /\ SubSeq(s, Len(s) - Len(suffix) + 1, Len(s)) = suffix

StartsWith(s, prefix) == Len(s) >= Len(prefix) /\ Take(s, Len(prefix)) = prefix

RECURSIVE TrimLeft(_)
TrimLeft(s) == IF s # <<>> /\ IsSpace(s[1]) THEN TrimLeft(Tail(s)) ELSE s

RECURSIVE TrimRight(_)
TrimRight(s) == IF s # <<>> /\ IsSpace(Last(s)) THEN TrimRight(Take(s, Len(s) - 1)) ELSE s

\* String.prototype.trim
Trim(s) == TrimRight(TrimLeft(s))

RECURSIVE Pow10(_)
Pow10(k) == IF k = 0 THEN 1 ELSE 10 * Pow10(k - 1)

RECURSIVE DigitsToNat(_)
DigitsToNat(s) == IF s = <<>> THEN 0 ELSE 10 * DigitsToNat(Take(s, Len(s) - 1)) + DigitVal(Last(s))

RECURSIVE NatToDigits(_)
NatToDigits(n) == IF n < 10 THEN <<Digits[n + 1]>> ELSE NatToDigits(n \div 10) \o <<Digits[(n % 10) + 1]>>

\* n written with exactly k digits (leading zeros)
RECURSIVE NatToDigitsPad(_, _)
NatToDigitsPad(n, k) == IF k = 0 THEN <<>> ELSE NatToDigitsPad(n \div 10, k - 1) \o <<Digits[(n % 10) + 1]>>

RECURSIVE Log10(_)
Log10(d) == IF d <= 1 THEN 0 ELSE 1 + Log10(d \div 10)

(***************************************************************************)
(* JavaScript values.                                                      *)
(***************************************************************************)
Str(s) == [t |-> "string", s |-> s, num |-> 0, den |-> 1, b |-> FALSE]

RECURSIVE Reduce10(_, _)
Reduce10(n, d) == IF d > 1 /\ n % 10 = 0 THEN Reduce10(n \div 10, d \div 10) ELSE <<n, d>>

\* the number n/d, d a power of ten, in lowest terms
Num(n, d) == [t |-> "number", s |-> <<>>, num |-> Reduce10(n, d)[1], den |-> Reduce10(n, d)[2], b |-> FALSE]

Infinity == [t |-> "number", s |-> <<>>, num |-> 1, den |-> 0, b |-> FALSE]

Bool(b) == [t |-> "boolean", s |-> <<>>, num |-> 0, den |-> 1, b |-> b]

Null == [t |-> "object", s |-> <<>>, num |-> 0, den |-> 1, b |-> FALSE]

Undefined == [t |-> "undefined", s |-> <<>>, num |-> 0, den |-> 1, b |-> FALSE]

\* value == null
IsNullish(v) == v = Null \/ v = Undefined

IsFinite(v) == v.t = "number" /\ v.den # 0

IsInteger(v) == v.t = "number" /\ v.den = 1

\* String(n) for a number
NumberToString(v) ==
    IF v.den = 0 THEN <<"I", "n", "f", "i", "n", "i", "t", "y">>
    ELSE LET a == IF v.num < 0 THEN 0 - v.num ELSE v.num
             sign == IF v.num < 0 THEN <<"-">> ELSE <<>>
             int == NatToDigits(a \div v.den)
             frac == IF v.den = 1 THEN <<>>
                     ELSE <<".">> \o NatToDigitsPad(a % v.den, Log10(v.den))
         IN sign \o int \o frac

\* String(value)
StringOf(v) ==
    CASE v.t = "string" -> v.s
      [] v.t = "number" -> NumberToString(v)
      [] v.t = "boolean" -> IF v.b THEN <<"t", "r", "u", "e">> ELSE <<"f", "a", "l", "s", "e">>
      [] v.t = "undefined" -> <<"u", "n", "d", "e", "f", "i", "n", "e", "d">>
      [] OTHER -> <<"n", "u", "l", "l">>

(***************************************************************************)
(* The numeric residual: the stripping steps shared by normalizeNumber and *)
(* detectTypeAndFormat.                                                    *)
(***************************************************************************)
CurrencySymbols == {"$", "euro", "pound"}

CurrencyCodes == {<<"u", "s", "d">>, <<"e", "u", "r">>, <<"g", "b", "p">>, <<"a", "u", "d">>,
                  <<"c", "a", "d">>, <<"n", "z", "d">>, <<"j", "p", "y">>, <<"c", "n", "y">>,
                  <<"i", "n", "r">>}

\* /^[\$\u20AC\u00A3]\s?/
HasLeadingSymbol(s) == s # <<>> /\ s[1] \in CurrencySymbols

StripLeadingSymbol(s) ==
    IF ~HasLeadingSymbol(s) THEN s
    ELSE IF Len(s) >= 2 /\ IsSpace(s[2]) THEN Drop(s, 2) ELSE Drop(s, 1)

\* /\s?(USD|EUR|GBP|AUD|CAD|NZD|JPY|CNY|INR)$/i
HasTrailingCode(s) == Len(s) >= 3 /\ ToLower(SubSeq(s, Len(s) - 2, Len(s))) \in CurrencyCodes

StripTrailingCode(s) ==
    IF ~HasTrailingCode(s) THEN s
    ELSE LET r == Take(s, Len(s) - 3)
         IN IF r # <<>> /\ IsSpace(Last(r)) THEN Take(r, Len(r) - 1) ELSE r

\* s.replace(/,/g, '')
RECURSIVE StripCommas(_)
StripCommas(s) ==
    IF s = <<>> THEN <<>>
    ELSE IF s[1] = "," THEN StripCommas(Tail(s)) ELSE <<s[1]>> \o StripCommas(Tail(s))

\* /%$/
HasTrailingPercent(s) == s # <<>> /\ Last(s) = "%"

StripTrailingPercent(s) == IF HasTrailingPercent(s) THEN Trim(Take(s, Len(s) - 1)) ELSE s

\* /^[+-]?\d+(?:\.\d+)?$/
IsSignedDecimal(s) ==
    LET u == IF s # <<>> /\ s[1] \in {"+", "-"} THEN Tail(s) ELSE s
        dots == {i \in 1..Len(u) : u[i] = "."}
    IN /\ u # <<>>
       /\ \/ AllDigits(u)
          \/ \E i \in dots : /\ i > 1 /\ i < Len(u)
                             /\ AllDigits(Take(u, i - 1))
                             /\ AllDigits(Drop(u, i))

\* Number(s) for a string that matches IsSignedDecimal
ParseDecimal(s) ==
    LET neg == s[1] = "-"
        u == IF s[1] \in {"+", "-"} THEN Tail(s) ELSE s
        dots == {i \in 1..Len(u) : u[i] = "."}
        ip == IF dots = {} THEN u ELSE Take(u, (CHOOSE i \in dots : TRUE) - 1)
        fp == IF dots = {} THEN <<>> ELSE Drop(u, CHOOSE i \in dots : TRUE)
        mag == DigitsToNat(ip \o fp)
    IN Num(IF neg THEN 0 - mag ELSE mag, Pow10(Len(fp)))

(***************************************************************************)
(* normalizeNumber, normalizeBoolean, isLikelyList.                        *)
(***************************************************************************)
\* the value left for the numeric test after the four stripping steps
NumericResidual(s) == StripTrailingPercent(StripCommas(StripTrailingCode(StripLeadingSymbol(s))))

\* normalizeNumber reading a percentage as a fraction ("12%" as 0.12)
normalizeNumberAsFraction(value, emptyAsNull) ==
    IF value.t = "number" THEN value
    ELSE IF IsNullish(value) THEN (IF emptyAsNull THEN Null ELSE value)
    ELSE LET s0 == Trim(StringOf(value))
             s == NumericResidual(s0)
             pct == HasTrailingPercent(StripCommas(StripTrailingCode(StripLeadingSymbol(s0))))
             p == ParseDecimal(s)
         IN IF s0 = <<>> THEN (IF emptyAsNull THEN Null ELSE value)
            ELSE IF s = <<>> THEN (IF emptyAsNull THEN Null ELSE value)
            ELSE IF IsSignedDecimal(s) THEN (IF pct THEN Num(p.num, p.den * 100) ELSE p)
            ELSE (IF emptyAsNull THEN Null ELSE value)

normalizeNumber(value, emptyAsNull) ==
    IF value.t = "number" THEN value
    ELSE IF IsNullish(value) THEN (IF emptyAsNull THEN Null ELSE value)
    ELSE LET s0 == Trim(StringOf(value))
             s == NumericResidual(s0)
         IN IF s0 = <<>> THEN (IF emptyAsNull THEN Null ELSE value)
            ELSE IF s = <<>> THEN (IF emptyAsNull THEN Null ELSE value)
            ELSE IF IsSignedDecimal(s) THEN ParseDecimal(s)
            ELSE (IF emptyAsNull THEN Null ELSE value)

normalizeBoolean(value) ==
    IF value.t = "boolean" THEN value
    ELSE IF IsNullish(value) THEN value
    ELSE LET s == ToLower(Trim(StringOf(value)))
         IN IF s = <<"t", "r", "u", "e">> THEN Bool(TRUE)
            ELSE IF s = <<"f", "a", "l", "s", "e">> THEN Bool(FALSE)
            ELSE value

\* String(s).split(/[;,|]/).map(p => p.trim()).filter(Boolean)
RECURSIVE SplitList(_, _)
SplitList(s, cur) ==
    IF s = <<>> THEN <<cur>>
    ELSE IF s[1] \in {";", ",", "|"} THEN <<cur>> \o SplitList(Tail(s), <<>>)
    ELSE SplitList(Tail(s), Append(cur, s[1]))

ListParts(s) == SelectSeq([i \in 1..Len(SplitList(s, <<>>)) |-> Trim(SplitList(s, <<>>)[i])],
                          LAMBDA p : p # <<>>)

RECURSIVE SumLen(_)
SumLen(ps) == IF ps = <<>> THEN 0 ELSE Len(ps[1]) + SumLen(Tail(ps))

isLikelyList(s) ==
    LET parts == ListParts(s)
    IN IF Len(parts) < 2 THEN FALSE
       ELSE SumLen(parts) <= 30 * Len(parts)

(***************************************************************************)
(* guessDateFormatFromString.  NoFormat stands for a null format.          *)
(***************************************************************************)
NoFormat == "<null>"

DigitsAt(s, i, j) == j <= Len(s) /\ \A k \in i..j : IsDigit(s[k])

\* ((?:[01]?\d)|(?:2[0-3]))
IsHour(h) ==
    \/ Len(h) = 1 /\ IsDigit(h[1])
    \/ Len(h) = 2 /\ h[1] \in {"0", "1"} /\ IsDigit(h[2])
    \/ Len(h) = 2 /\ h[1] = "2" /\ h[2] \in {"0", "1", "2", "3"}

\* ([0-5]\d) at positions i, i+1
IsSexagesimalAt(s, i) == i + 1 <= Len(s) /\ s[i] \in {"0", "1", "2", "3", "4", "5"} /\ IsDigit(s[i + 1])

\* /^((?:[01]?\d)|(?:2[0-3])):([0-5]\d)(?::([0-5]\d))?(?:\s*(AM|PM))?$/i
\* the result is <<matched, hasSec, hasAmPm>>
MatchTime(v) ==
    LET colons == {i \in 1..Len(v) : v[i] = ":"}
        p == IF colons = {} THEN 0 ELSE CHOOSE i \in colons : \A j \in colons : i <= j
        r == Drop(v, p + 2)
        hasSec == Len(r) >= 3 /\ r[1] = ":" /\ IsSexagesimalAt(r, 2)
        r2 == IF hasSec THEN Drop(r, 3) ELSE r
        hasAmPm == r2 # <<>> /\ ToLower(TrimLeft(r2)) \in {<<"a", "m">>, <<"p", "m">>}
    IN IF p >= 2 /\ IsHour(Take(v, p - 1)) /\ IsSexagesimalAt(v, p + 1) /\ (r2 = <<>> \/ hasAmPm)
       THEN <<TRUE, hasSec, hasAmPm>>
       ELSE <<FALSE, FALSE, FALSE>>

\* (Z|[+-]\d{2}:?\d{2}) covering the whole of z
IsZone(z) ==
    \/ z = <<"Z">>
    \/ Len(z) = 5 /\ z[1] \in {"+", "-"} /\ DigitsAt(z, 2, 5)
    \/ Len(z) = 6 /\ z[1] \in {"+", "-"} /\ DigitsAt(z, 2, 3) /\ z[4] = ":" /\ DigitsAt(z, 5, 6)

RECURSIVE LeadingDigits(_)
LeadingDigits(s) == IF s # <<>> /\ IsDigit(s[1]) THEN 1 + LeadingDigits(Tail(s)) ELSE 0

\* /^(\d{4})-(\d{2})-(\d{2})(?:[T\s](\d{2}):(\d{2})(?::(\d{2}))?(?:\.(\d+))?)?(Z|[+-]\d{2}:?\d{2})?$/
\* read from the left, one group at a time; the result is
\* <<matched, hasTime, hasSec (m[6]), hasFraction (m[7]), hasZone (m[8])>>
NoISO == <<FALSE, FALSE, FALSE, FALSE, FALSE>>

\* (Z|[+-]\d{2}:?\d{2})?$ on the rest r of the string
MatchISOZone(r, hasTime, hasSec, hasFrac) ==
    IF r = <<>> \/ IsZone(r) THEN <<TRUE, hasTime, hasSec, hasFrac, r # <<>>>> ELSE NoISO

\* (?:\.(\d+))? and what follows
MatchISOFraction(r, hasSec) ==
    IF Len(r) >= 2 /\ r[1] = "." /\ IsDigit(r[2])
    THEN MatchISOZone(Drop(r, 1 + LeadingDigits(Tail(r))), TRUE, hasSec, TRUE)
    ELSE MatchISOZone(r, TRUE, hasSec, FALSE)

\* (?::(\d{2}))? and what follows
MatchISOSeconds(r) ==
    IF Len(r) >= 3 /\ r[1] = ":" /\ DigitsAt(r, 2, 3)
    THEN MatchISOFraction(Drop(r, 3), TRUE)
    ELSE MatchISOFraction(r, FALSE)

\* (?:[T\s](\d{2}):(\d{2}) ... )? and what follows
MatchISOTime(r) ==
    IF /\ Len(r) >= 6
       /\ (r[1] = "T" \/ IsSpace(r[1]))
       /\ DigitsAt(r, 2, 3) /\ r[4] = ":" /\ DigitsAt(r, 5, 6)
    THEN MatchISOSeconds(Drop(r, 6))
    ELSE MatchISOZone(r, FALSE, FALSE, FALSE)

MatchISO(v) ==
    IF /\ Len(v) >= 10
       /\ DigitsAt(v, 1, 4) /\ v[5] = "-" /\ DigitsAt(v, 6, 7) /\ v[8] = "-"
       /\ DigitsAt(v, 9, 10)
    THEN MatchISOTime(Drop(v, 10))
    ELSE NoISO

\* /^(\d{1,2})([\/\-])(\d{1,2})\2(\d{4})$/ ; the result is <<matched, a, sep, b>>
MatchDMY(v) ==
    LET la == IF Len(v) >= 2 /\ IsDigit(v[2]) THEN 2 ELSE 1
        sep == IF Len(v) > la THEN v[la + 1] ELSE ""
        r == Drop(v, la + 1)
        lb == IF Len(r) >= 2 /\ IsDigit(r[2]) THEN 2 ELSE 1
        ok == /\ v # <<>> /\ IsDigit(v[1])
              /\ sep \in {"/", "-"}
              /\ r # <<>> /\ IsDigit(r[1])
              /\ Len(r) = lb + 5
              /\ r[lb + 1] = sep
              /\ DigitsAt(r, lb + 2, lb + 5)
    IN IF ok THEN <<TRUE, DigitsToNat(Take(v, la)), sep, DigitsToNat(Take(r, lb))>>
       ELSE <<FALSE, 0, "", 0>>

\* lines 689-733 on the trimmed string v and the matches tm, iso, dmy of
\* the three regular expressions with groups
DateFormatOf(v, tm, iso, dmy) ==
    IF v = <<>> THEN NoFormat
    ELSE IF tm[1] THEN
         (IF tm[3] THEN (IF tm[2] THEN "%I:%M:%S %p" ELSE "%I:%M %p")
                   ELSE (IF tm[2] THEN "%H:%M:%S" ELSE "%H:%M"))
    ELSE IF iso[1] THEN
         "%Y-%m-%d"
           \o (IF iso[2] THEN (IF \E i \in 1..Len(v) : v[i] = "T" THEN "T"
                                 ELSE (IF iso[2] THEN " " ELSE ""))
                                \o "%H:%M" \o (IF iso[3] THEN ":%S" ELSE "")
                                \o (IF iso[4] THEN ".%f" ELSE "")
                         ELSE "")
           \o (IF iso[5] THEN "%z" ELSE "")
    ELSE IF Len(v) = 10 /\ DigitsAt(v, 1, 4) /\ v[5] = "/" /\ DigitsAt(v, 6, 7)
            /\ v[8] = "/" /\ DigitsAt(v, 9, 10) THEN "%Y/%m/%d"
    ELSE IF Len(v) = 10 /\ DigitsAt(v, 1, 4) /\ v[5] = "-" /\ DigitsAt(v, 6, 7)
            /\ v[8] = "-" /\ DigitsAt(v, 9, 10) THEN "%Y-%m-%d"
    ELSE IF dmy[1] THEN
         (IF dmy[2] > 12 /\ dmy[4] <= 12 THEN "%d" \o dmy[3] \o "%m" \o dmy[3] \o "%Y"
          ELSE IF dmy[4] > 12 /\ dmy[2] <= 12 THEN "%m" \o dmy[3] \o "%d" \o dmy[3] \o "%Y"
          ELSE "%m" \o dmy[3] \o "%d" \o dmy[3] \o "%Y")
    ELSE IF Len(v) = 10 /\ DigitsAt(v, 1, 2) /\ v[3] = "-" /\ DigitsAt(v, 4, 5)
            /\ v[6] = "-" /\ DigitsAt(v, 7, 10) THEN "%d-%m-%Y"
    ELSE IF Len(v) = 10 /\ DigitsAt(v, 1, 2) /\ v[3] = "/" /\ DigitsAt(v, 4, 5)
            /\ v[6] = "/" /\ DigitsAt(v, 7, 10) THEN "%m/%d/%Y"
    ELSE NoFormat

\* the guess for a string already trimmed
DateFormatOfTrimmed(v) == DateFormatOf(v, MatchTime(v), MatchISO(v), MatchDMY(v))

guessDateFormatFromString(s) == DateFormatOfTrimmed(Trim(s))

(***************************************************************************)
(* detectTypeAndFormat.  NoResult stands for the null result.              *)
(***************************************************************************)
NoResult == [type |-> "none", format |-> NoFormat]

TF(type, format) == [type |-> type, format |-> format]

\* /^(19|20)\d{2}[-\u2013](\d{2})$/
IsFinancialYear(v) ==
    /\ Len(v) = 7
    /\ Take(v, 2) \in {<<"1", "9">>, <<"2", "0">>}
    /\ DigitsAt(v, 3, 4) /\ v[5] \in {"-", "endash"} /\ DigitsAt(v, 6, 7)

\* /^(https?:\/\/)\S+$/i
IsURL(v) ==
    LET l == ToLower(v)
        http == <<"h", "t", "t", "p", ":", "/", "/">>
        https == <<"h", "t", "t", "p", "s", ":", "/", "/">>
        n == IF StartsWith(l, https) THEN 8 ELSE IF StartsWith(l, http) THEN 7 ELSE 0
    IN n > 0 /\ Len(v) > n /\ \A i \in (n + 1)..Len(v) : ~IsSpace(v[i])

\* /^[A-Z0-9._%+-]+@[A-Z0-9.-]+\.[A-Z]{2,}$/i
IsEmail(v) ==
    \E i \in 2..Len(v) : \E j \in (i + 2)..Len(v) :
        /\ v[i] = "@" /\ v[j] = "."
        /\ \A k \in 1..(i - 1) : IsAlnum(v[k]) \/ v[k] \in {".", "_", "%", "+", "-"}
        /\ \A k \in (i + 1)..(j - 1) : IsAlnum(v[k]) \/ v[k] \in {".", "-"}
        /\ Len(v) - j >= 2
        /\ \A k \in (j + 1)..Len(v) : IsUpper(v[k]) \/ IsLower(v[k])

\* /^\d{1,3}(\.\d{1,3}){3}$/
RECURSIVE IsDottedQuad(_, _)
IsDottedQuad(v, groups) ==
    LET n == LeadingDigits(v)
    IN /\ n >= 1 /\ n <= 3
       /\ IF groups = 1 THEN Len(v) = n
          ELSE Len(v) > n /\ v[n + 1] = "." /\ IsDottedQuad(Drop(v, n + 1), groups - 1)

\* /^\+?\d[\d\s().-]{8,}$/
IsPhoneNumber(v) ==
    LET u == IF v # <<>> /\ v[1] = "+" THEN Tail(v) ELSE v
    IN /\ Len(u) >= 9 /\ IsDigit(u[1])
       /\ \A k \in 2..Len(u) : IsDigit(u[k]) \/ IsSpace(u[k]) \/ u[k] \in {"(", ")", ".", "-"}

\* /^#[0-9A-Fa-f]{6}$/
IsColor(v) ==
    /\ Len(v) = 7 /\ v[1] = "#"
    /\ \A k \in 2..7 : IsDigit(v[k]) \/ v[k] \in {"a", "b", "c", "d", "e", "f", "A", "B", "C", "D", "E", "F"}

DataPrefix(kind) == <<"d", "a", "t", "a", ":">> \o kind

\* JSON.parse(vStr) does not throw, for a text that starts with { or [ and
\* ends with } or ]: the model's texts are the empty object, the empty array
\* and flat arrays of integers
RECURSIVE IsIntegerList(_)
IsIntegerList(v) ==
    LET u == IF v # <<>> /\ v[1] = "-" THEN Tail(v) ELSE v
        n == LeadingDigits(u)
    IN /\ n >= 1
       /\ (n = 1 \/ u[1] # "0")
       /\ \/ Len(u) = n
          \/ Len(u) > n /\ u[n + 1] = "," /\ IsIntegerList(Drop(u, n + 1))

JSONParses(v) ==
    LET inner == Trim(SubSeq(v, 2, Len(v) - 1))
    IN \/ inner = <<>>
       \/ v[1] = "[" /\ IsIntegerList(inner)

\* /^[a-z0-9]+(?:-[a-z0-9]+)*$/i
RECURSIVE IsToken(_)
IsToken(v) ==
    /\ v # <<>> /\ IsAlnum(v[1])
    /\ \/ Len(v) = 1
       \/ IsToken(Tail(v))
       \/ Len(v) >= 3 /\ v[2] = "-" /\ IsToken(Drop(v, 2))

\* (vStr.match(/[.!?](\s|$)/g) || []).length
Sentences(v) ==
    Cardinality({i \in 1..Len(v) : v[i] \in {".", "!", "?"} /\ (i = Len(v) \/ IsSpace(v[i + 1]))})

\* lines 164-168: the format of the numeric residual norm, NoFormat when it
\* is not a signed decimal
NumberFormatOfResidual(norm, hadPercent, hadCurrency) ==
    IF ~IsSignedDecimal(norm) THEN NoFormat
    ELSE IF hadPercent THEN "Percentage"
    ELSE IF hadCurrency THEN "Currency"
    ELSE IF IsInteger(ParseDecimal(norm)) THEN "Integer" ELSE "Float"

\* lines 161-163: the commas and the trailing percent sign
NumberFormatAfterCode(n2, hadCurrency) ==
    NumberFormatOfResidual(StripTrailingPercent(n2), HasTrailingPercent(n2), hadCurrency)

\* lines 158-161: the trailing currency code
NumberFormatAfterSymbol(n1, hadSym) ==
    NumberFormatAfterCode(StripCommas(StripTrailingCode(n1)), hadSym \/ HasTrailingCode(n1))

\* lines 151-169: the Number format of a trimmed string, NoFormat when none
NumberFormatOfString(vStr) == NumberFormatAfterSymbol(StripLeadingSymbol(vStr), HasLeadingSymbol(vStr))

\* lines 174-210: the String subformat of a trimmed, non-empty string
StringFormatOf(vStr) ==
    IF IsFinancialYear(vStr) THEN "Financial year"
    ELSE IF IsURL(vStr) THEN "URL"
    ELSE IF IsEmail(vStr) THEN "Email"
    ELSE IF IsDottedQuad(vStr, 4) THEN "IP Address"
    ELSE IF IsPhoneNumber(vStr) THEN "Phone Number"
    ELSE IF IsColor(vStr) THEN "Color"
    ELSE IF StartsWith(vStr, DataPrefix(<<"i", "m", "a", "g", "e">>)) THEN "Image"
    ELSE IF StartsWith(vStr, DataPrefix(<<"a", "u", "d", "i", "o">>)) THEN "Audio"
    ELSE IF StartsWith(vStr, DataPrefix(<<"v", "i", "d", "e", "o">>)) THEN "Video"
    ELSE IF /\ \/ vStr[1] = "{" /\ Last(vStr) = "}"
               \/ vStr[1] = "[" /\ Last(vStr) = "]"
            /\ JSONParses(vStr)
         THEN (IF vStr[1] = "{" THEN "Object" ELSE "JSON")
    ELSE IF IsToken(vStr) THEN "Text"
    ELSE IF Len(vStr) > 80 /\ Sentences(vStr) >= 1 THEN "Text"
    ELSE IF Sentences(vStr) >= 1 THEN "Text"
    ELSE IF Len(vStr) > 50 THEN "Text"
    ELSE "Text"

\* the classifier with the Number rule applied whatever preferStringNumbers is
ClassifyTextWithNumbers(value, vStr, guessedFmt, numberFmt, preferStringNumbers) ==
    IF vStr = <<>> THEN NoResult
    ELSE IF value.t = "boolean" \/ ToLower(vStr) \in {<<"t", "r", "u", "e">>, <<"f", "a", "l", "s", "e">>}
         THEN TF("Boolean", "Boolean")
    ELSE IF guessedFmt # NoFormat THEN TF("Date", guessedFmt)
    ELSE IF value.t = "number"
         THEN TF("Number", IF IsInteger(value) THEN "Integer" ELSE "Float")
    ELSE IF numberFmt # NoFormat THEN TF("Number", numberFmt)
    ELSE TF("String", StringFormatOf(vStr))

\* lines 136-210 on the trimmed text vStr of the value, its date format
\* guessedFmt and its Number format numberFmt
ClassifyText(value, vStr, guessedFmt, numberFmt, preferStringNumbers) ==
    IF vStr = <<>> THEN NoResult
    ELSE IF value.t = "boolean" \/ ToLower(vStr) \in {<<"t", "r", "u", "e">>, <<"f", "a", "l", "s", "e">>}
         THEN TF("Boolean", "Boolean")
    ELSE IF guessedFmt # NoFormat THEN TF("Date", guessedFmt)
    ELSE IF ~preferStringNumbers /\ value.t = "number"
         THEN TF("Number", IF IsInteger(value) THEN "Integer" ELSE "Float")
    ELSE IF ~preferStringNumbers /\ numberFmt # NoFormat THEN TF("Number", numberFmt)
    ELSE TF("String", StringFormatOf(vStr))

ClassifyTrimmed(value, vStr, preferStringNumbers) ==
    ClassifyText(value, vStr, guessDateFormatFromString(vStr), NumberFormatOfString(vStr),
                 preferStringNumbers)

detectTypeAndFormat(value, preferStringNumbers) ==
    IF IsNullish(value) THEN NoResult
    ELSE ClassifyTrimmed(value, Trim(StringOf(value)), preferStringNumbers)

(***************************************************************************)
(* Numbers: comparison and arithmetic on exact decimals.                   *)
(***************************************************************************)
NegInfinity == [t |-> "number", s |-> <<>>, num |-> 0 - 1, den |-> 0, b |-> FALSE]

Max2(a, b) == IF a >= b THEN a ELSE b

\* x < y
NumLess(x, y) ==
    IF x.den = 0 THEN x.num < 0 /\ (y.den # 0 \/ y.num > 0)
    ELSE IF y.den = 0 THEN y.num > 0
    ELSE x.num * y.den < y.num * x.den

\* x + y, x and y finite
NumAdd(x, y) ==
    LET d == Max2(x.den, y.den)
    IN Num(x.num * (d \div x.den) + y.num * (d \div y.den), d)

\* x * y, x and y finite
NumMul(x, y) == Num(x.num * y.num, x.den * y.den)

\* x - y = 1, x and y finite
DiffIsOne(x, y) == x.num * y.den - y.num * x.den = x.den * y.den

(***************************************************************************)
(* Insertion-ordered maps (JavaScript Map): sequences of [k, c] entries.   *)
(***************************************************************************)
MapHas(m, k) == \E i \in 1..Len(m) : m[i].k = k

MapGet(m, k) == IF MapHas(m, k) THEN m[CHOOSE i \in 1..Len(m) : m[i].k = k].c ELSE 0

\* m.set(k, (m.get(k) || 0) + 1)
MapInc(m, k) ==
    IF MapHas(m, k)
    THEN [i \in 1..Len(m) |-> IF m[i].k = k THEN [k |-> k, c |-> m[i].c + 1] ELSE m[i]]
    ELSE Append(m, [k |-> k, c |-> 1])

RECURSIVE MapSum(_)
MapSum(m) == IF m = <<>> THEN 0 ELSE m[1].c + MapSum(Tail(m))

\* insert e after the entries whose count is at least e's (stable, descending)
RECURSIVE InsertDesc(_, _)
InsertDesc(sorted, e) ==
    IF sorted = <<>> THEN <<e>>
    ELSE IF sorted[1].c >= e.c THEN <<sorted[1]>> \o InsertDesc(Tail(sorted), e)
    ELSE <<e>> \o sorted

\* [...m.entries()].sort((a, b) => b[1] - a[1])
RECURSIVE SortDesc(_)
SortDesc(m) == IF m = <<>> THEN <<>> ELSE InsertDesc(SortDesc(Take(m, Len(m) - 1)), Last(m))

\* an ordered set (JavaScript Set) as a sequence without repetition
SeqAdd(q, x) == IF \E i \in 1..Len(q) : q[i] = x THEN q ELSE Append(q, x)

(***************************************************************************)
(* The key sanitizer of getSchema.                                         *)
(***************************************************************************)
\* /[\uFEFF\u200B-\u200D\u2060\u00A0\u00AD]/g and /[\u0000-\u001F\u007F-\u009F]/g
IsStripped(c) == c \in {"bom", "zwsp", "nbsp", "shy", "\t", "\n", "nul"}

RECURSIVE StripInvisible(_)
StripInvisible(s) ==
    IF s = <<>> THEN <<>>
    ELSE IF IsStripped(s[1]) THEN StripInvisible(Tail(s)) ELSE <<s[1]>> \o StripInvisible(Tail(s))

\* s.replace(/\s+/g, ' ')
RECURSIVE CollapseSpaces(_)
CollapseSpaces(s) ==
    IF s = <<>> THEN <<>>
    ELSE IF IsSpace(s[1]) THEN <<" ">> \o CollapseSpaces(TrimLeft(s))
    ELSE <<s[1]>> \o CollapseSpaces(Tail(s))

sanitizeKey(name) ==
    LET s == Trim(CollapseSpaces(StripInvisible(name)))
    IN IF s = <<>> THEN <<"c", "o", "l">> ELSE s

RECURSIVE UniqueCandidate(_, _, _)
UniqueCandidate(base, n, used) ==
    LET candidate == base \o <<"_">> \o NatToDigits(n)
    IN IF candidate \in used THEN UniqueCandidate(base, n + 1, used) ELSE candidate

\* the sanitizer without the collision suffix
getSanitizedBase(name, used) == sanitizeKey(name)

\* the sanitizer with the suffix _2 tried once, without the loop
getUniqueSanitizedOnce(name, used) ==
    IF sanitizeKey(name) \in used THEN sanitizeKey(name) \o <<"_", "2">> ELSE sanitizeKey(name)

\* the candidate returned; the caller adds it to usedSanitized
getUniqueSanitized(name, used) ==
    LET base == sanitizeKey(name)
    IN IF base \in used THEN UniqueCandidate(base, 2, used) ELSE base

(***************************************************************************)
(* The column accumulator of getSchema: one entry per column name, in a    *)
(* Map kept in insertion order (a sequence of entries).                    *)
(***************************************************************************)
NewEntry(keyName, sourceName) ==
    [name |-> keyName,
     types |-> {},
     formatsByType |-> {},
     sawNonEmpty |-> FALSE,
     nonEmptyCount |-> 0,
     uniqueValues |-> {},
     valueCounts |-> <<>>,
     formatCounts |-> <<>>,
     typeCounts |-> <<>>,
     strSeen |-> <<>>,
     hasStringDuplicate |-> FALSE,
     strValueCounts |-> <<>>,
     maxStrValueCount |-> 0,
     strObsCount |-> 0,
     textFormatCounts |-> <<>>,
     listCount |-> 0,
     lastNum |-> Undefined,
     numCount |-> 0,
     isSequential |-> TRUE,
     numFourDigitCount |-> 0,
     numInRangeCount |-> 0,
     numStats |-> [count |-> 0, sum |-> Num(0, 1), sumSq |-> Num(0, 1), min |-> Infinity, max |-> NegInfinity],
     textStats |-> [count |-> 0, minLen |-> Infinity, maxLen |-> 0, sumLen |-> 0],
     sourceName |-> sourceName]

\* CountCell setting the count of a label to 1 instead of adding 1 to it
CountCellOnce(entry, tf, vRaw) ==
    LET label == IF tf.format # NoFormat /\ tf.format # "" THEN tf.format ELSE tf.type
        distinctKey == IF vRaw.t = "string" THEN Trim(vRaw.s) ELSE StringOf(vRaw)
    IN [entry EXCEPT
          !.sawNonEmpty = TRUE,
          !.types = @ \cup {tf.type},
          !.formatsByType = @ \cup {<<tf.type, IF tf.format = NoFormat THEN "__none__" ELSE tf.format>>},
          !.nonEmptyCount = @ + 1,
          !.formatCounts = IF MapHas(@, label) THEN @ ELSE MapInc(@, label),
          !.typeCounts = MapInc(@, tf.type),
          !.uniqueValues = IF distinctKey # <<>> THEN @ \cup {distinctKey} ELSE @]

\* lines 299-316: the counts every non-empty cell updates
CountCell(entry, tf, vRaw) ==
    LET label == IF tf.format # NoFormat /\ tf.format # "" THEN tf.format ELSE tf.type
        distinctKey == IF vRaw.t = "string" THEN Trim(vRaw.s) ELSE StringOf(vRaw)
    IN [entry EXCEPT
          !.sawNonEmpty = TRUE,
          !.types = @ \cup {tf.type},
          !.formatsByType = @ \cup {<<tf.type, IF tf.format = NoFormat THEN "__none__" ELSE tf.format>>},
          !.nonEmptyCount = @ + 1,
          !.formatCounts = MapInc(@, label),
          !.typeCounts = MapInc(@, tf.type),
          !.uniqueValues = IF distinctKey # <<>> THEN @ \cup {distinctKey} ELSE @]

\* lines 319-349: a cell classified String, s its trimmed text
TrackStringAs(entry, tf, raw, s) ==
    IF tf.type # "String" \/ IsNullish(raw) \/ s = <<>> THEN entry
    ELSE [entry EXCEPT
            !.strObsCount = @ + 1,
            !.hasStringDuplicate = IF \E i \in 1..Len(entry.strSeen) : entry.strSeen[i] = s
                                   THEN TRUE ELSE @,
            !.strSeen = SeqAdd(@, s),
            !.strValueCounts = MapInc(@, s),
            !.valueCounts = MapInc(@, s),
            !.maxStrValueCount = IF MapGet(entry.strValueCounts, s) + 1 > @
                                 THEN MapGet(entry.strValueCounts, s) + 1 ELSE @,
            !.textFormatCounts = IF tf.format = "Text" THEN MapInc(@, tf.format) ELSE @,
            !.listCount = IF isLikelyList(s) THEN @ + 1 ELSE @,
            !.textStats = [count |-> @.count + 1,
                           sumLen |-> @.sumLen + Len(s),
                           minLen |-> IF NumLess(Num(Len(s), 1), @.minLen) THEN Num(Len(s), 1) ELSE @.minLen,
                           maxLen |-> IF Len(s) > @.maxLen THEN Len(s) ELSE @.maxLen]]

TrackString(entry, tf, raw) == TrackStringAs(entry, tf, raw, Trim(StringOf(raw)))

\* TrackNumberAs with isSequential set from the last increment alone
TrackNumberUnlatched(entry, tf, n) ==
    IF tf.type # "Number" \/ ~IsFinite(n) THEN entry
    ELSE [entry EXCEPT
            !.numStats = [count |-> @.count + 1,
                          sum |-> NumAdd(@.sum, n),
                          sumSq |-> NumAdd(@.sumSq, NumMul(n, n)),
                          min |-> IF NumLess(n, @.min) THEN n ELSE @.min,
                          max |-> IF NumLess(@.max, n) THEN n ELSE @.max],
            !.valueCounts = MapInc(@, StringOf(n)),
            !.isSequential = IF entry.numCount # 0 THEN DiffIsOne(n, entry.lastNum) ELSE @,
            !.lastNum = n,
            !.numCount = @ + 1,
            !.numFourDigitCount = IF IsInteger(n) /\ n.num >= 1000 /\ n.num <= 9999 THEN @ + 1 ELSE @,
            !.numInRangeCount = IF IsInteger(n) /\ n.num >= 1800 /\ n.num <= 2100 THEN @ + 1 ELSE @]

\* lines 352-381: a cell classified Number, n its number
TrackNumberAs(entry, tf, n) ==
    IF tf.type # "Number" \/ ~IsFinite(n) THEN entry
    ELSE [entry EXCEPT
            !.numStats = [count |-> @.count + 1,
                          sum |-> NumAdd(@.sum, n),
                          sumSq |-> NumAdd(@.sumSq, NumMul(n, n)),
                          min |-> IF NumLess(n, @.min) THEN n ELSE @.min,
                          max |-> IF NumLess(@.max, n) THEN n ELSE @.max],
            !.valueCounts = MapInc(@, StringOf(n)),
            !.isSequential = IF entry.numCount # 0 /\ ~DiffIsOne(n, entry.lastNum) THEN FALSE ELSE @,
            !.lastNum = n,
            !.numCount = @ + 1,
            !.numFourDigitCount = IF IsInteger(n) /\ n.num >= 1000 /\ n.num <= 9999 THEN @ + 1 ELSE @,
            !.numInRangeCount = IF IsInteger(n) /\ n.num >= 1800 /\ n.num <= 2100 THEN @ + 1 ELSE @]

TrackNumber(entry, tf, raw) == TrackNumberAs(entry, tf, normalizeNumber(raw, FALSE))

AccHas(a, keyName) == \E i \in 1..Len(a) : a[i].name = keyName

AccIndex(a, keyName) == CHOOSE i \in 1..Len(a) : a[i].name = keyName

AccGet(a, keyName) == a[AccIndex(a, keyName)]

\* lines 298-382: the entry at index i takes the cell in
StoreCell(acc1, i, tf, vRaw) ==
    [acc1 EXCEPT ![i] = TrackNumber(TrackString(CountCell(acc1[i], tf, vRaw), tf, vRaw), tf, vRaw)]

\* lines 266-297: if (!acc.has(keyName)) acc.set(keyName, {...})
WithEntry(a, keyName, sourceName) ==
    IF AccHas(a, keyName) THEN a ELSE Append(a, NewEntry(keyName, sourceName))

StoreUnder(acc1, keyName, tf, vRaw) == StoreCell(acc1, AccIndex(acc1, keyName), tf, vRaw)

\* lines 263-382: a cell without classification is skipped
AccumulateUnder(a, keyName, sourceName, tf, vRaw) ==
    IF tf = NoResult THEN a ELSE StoreUnder(WithEntry(a, keyName, sourceName), keyName, tf, vRaw)

\* line 258: originalToSanitized.set(col, getUniqueSanitized(col))
Register(st, col, candidate) ==
    [used |-> st.used \cup {candidate},
     o2s |-> [k \in DOMAIN st.o2s \cup {col} |-> IF k = col THEN candidate ELSE st.o2s[k]]]

\* lines 256-261: the two sanitizer collections after the key col is read
Sanitized(st, col, sanitizeKeys) ==
    IF sanitizeKeys /\ col \notin DOMAIN st.o2s
    THEN Register(st, col, getUniqueSanitized(col, st.used))
    ELSE [used |-> st.used, o2s |-> st.o2s]

AccumulateSanitized(a, sn, col, vRaw, preferStringNumbers, sanitizeKeys) ==
    [acc |-> AccumulateUnder(a, IF sanitizeKeys THEN sn.o2s[col] ELSE col,
                             IF sanitizeKeys THEN Str(col) ELSE Undefined,
                             detectTypeAndFormat(vRaw, preferStringNumbers), vRaw),
     used |-> sn.used,
     o2s |-> sn.o2s]

\* The body of the inner loop of getSchema (lines 254-382) for the cell of
\* column col with value vRaw, on the state st = [acc, used, o2s] of the
\* accumulator map and of the two sanitizer collections.
AccumulateCell(st, col, vRaw, preferStringNumbers, sanitizeKeys) ==
    AccumulateSanitized(st.acc, Sanitized(st, col, sanitizeKeys), col, vRaw,
                        preferStringNumbers, sanitizeKeys)

(***************************************************************************)
(* Rows.  An entry of the dataset is an object (its own keys in insertion  *)
(* order, each with a value), null or undefined ("nullish"), or another    *)
(* non-object value ("primitive").                                         *)
(***************************************************************************)
ObjectRow(cells) == [kind |-> "object", cells |-> cells]

NullRow == [kind |-> "nullish", cells |-> <<>>]

PrimitiveRow == [kind |-> "primitive", cells |-> <<>>]

\* Object.prototype.hasOwnProperty.call(row, key), row not nullish
RowHas(row, key) == \E i \in 1..Len(row.cells) : row.cells[i].k = key

\* row[key], row not nullish
RowGet(row, key) ==
    IF RowHas(row, key) THEN row.cells[CHOOSE i \in 1..Len(row.cells) : row.cells[i].k = key].v
    ELSE Undefined

HasNullRow(rs) == \E i \in 1..Len(rs) : rs[i].kind = "nullish"

(***************************************************************************)
(* guessColumnDateFormat: [raised, format]; reading a property of a        *)
(* nullish row raises a TypeError.                                         *)
(***************************************************************************)
\* lines 749-750: a value that yields no format is not counted
CountDateFormat(counts, fmt) == IF fmt = NoFormat THEN counts ELSE MapInc(counts, fmt)

\* lines 747-750: the cell raw of one row
CountDate(counts, raw) ==
    IF IsNullish(raw) \/ raw = Str(<<>>) THEN counts
    ELSE CountDateFormat(counts, guessDateFormatFromString(StringOf(raw)))

RECURSIVE DateFormatCounts(_, _)
DateFormatCounts(rs, columnName) ==
    IF rs = <<>> THEN <<>>
    ELSE CountDate(DateFormatCounts(Take(rs, Len(rs) - 1), columnName), RowGet(Last(rs), columnName))

\* lines 752-756 on the sorted entries of the counts
FormatOfCounts(formats) ==
    IF Len(formats) = 0 THEN NoFormat
    ELSE IF Len(formats) = 1 THEN formats[1].k
    ELSE "__mixed__"

guessColumnDateFormat(rs, columnName) ==
    IF HasNullRow(rs) THEN [raised |-> TRUE, format |-> NoFormat]
    ELSE [raised |-> FALSE, format |-> FormatOfCounts(SortDesc(DateFormatCounts(rs, columnName)))]

(***************************************************************************)
(* The schema resolver of getSchema (lines 385-587).  Ratios are pairs     *)
(* n/d; NoRatio and NoProbably stand for undefined.                        *)
(***************************************************************************)
Ratio(n, d) == [n |-> n, d |-> d]

NoRatio == [n |-> 0, d |-> 0]

RatioLess(a, b) == a.n * b.d < b.n * a.d

RatioEq(a, b) == a.n * b.d = b.n * a.d

Probably(label, items) == [label |-> label, items |-> items]

NoProbably == Probably("<undefined>", <<>>)

\* total ? (n / total) : 0
Fraction(n, total) == IF total # 0 THEN Ratio(n, total) ELSE Ratio(0, 1)

\* MixedScore without the closing recalculation from the format counts
MixedScoreOfStrings(e) ==
    LET sorted == SortDesc(e.formatCounts)
        top == sorted[1]
        s1 == Ratio(top.c, e.nonEmptyCount)
        g1 == [score |-> s1, probably |-> IF RatioLess(s1, Ratio(1, 1)) THEN Probably(top.k, <<>>) ELSE NoProbably]
        category == e.maxStrValueCount
        text == MapGet(e.textFormatCounts, "Text")
        list == e.listCount
        g2 == IF e.strObsCount = 0 THEN g1
              ELSE IF list >= text /\ list >= category /\ list > 0
                   THEN [score |-> Ratio(list, e.strObsCount), probably |-> Probably("List", <<>>)]
              ELSE IF text >= category /\ text > 0
                   THEN [score |-> Ratio(text, e.strObsCount), probably |-> Probably("Text", <<>>)]
              ELSE IF category > 0
                   THEN [score |-> Ratio(category, e.strObsCount), probably |-> Probably("Category", <<>>)]
              ELSE g1
        percScore == Fraction(MapGet(e.formatCounts, "Percentage"), e.nonEmptyCount)
        g3 == IF RatioLess(g2.score, percScore)
              THEN [score |-> percScore, probably |-> Probably("Percentage", <<>>)]
              ELSE g2
    IN IF e.nonEmptyCount > 0 THEN g3 ELSE [score |-> NoRatio, probably |-> NoProbably]

\* lines 404-447: score and probably of a column of several base types
MixedScore(e) ==
    LET sorted == SortDesc(e.formatCounts)
        top == sorted[1]
        s1 == Ratio(top.c, e.nonEmptyCount)
        g1 == [score |-> s1, probably |-> IF RatioLess(s1, Ratio(1, 1)) THEN Probably(top.k, <<>>) ELSE NoProbably]
        category == e.maxStrValueCount
        text == MapGet(e.textFormatCounts, "Text")
        list == e.listCount
        g2 == IF e.strObsCount = 0 THEN g1
              ELSE IF list >= text /\ list >= category /\ list > 0
                   THEN [score |-> Ratio(list, e.strObsCount), probably |-> Probably("List", <<>>)]
              ELSE IF text >= category /\ text > 0
                   THEN [score |-> Ratio(text, e.strObsCount), probably |-> Probably("Text", <<>>)]
              ELSE IF category > 0
                   THEN [score |-> Ratio(category, e.strObsCount), probably |-> Probably("Category", <<>>)]
              ELSE g1
        percScore == Fraction(MapGet(e.formatCounts, "Percentage"), e.nonEmptyCount)
        g3 == IF RatioLess(g2.score, percScore)
              THEN [score |-> percScore, probably |-> Probably("Percentage", <<>>)]
              ELSE g2
        total == MapSum(sorted)
        g4 == IF Len(sorted) > 0 /\ total # 0
              THEN [score |-> Ratio(sorted[1].c, total), probably |-> Probably(sorted[1].k, <<>>)]
              ELSE g3
    IN IF e.nonEmptyCount > 0 THEN g4 ELSE [score |-> NoRatio, probably |-> NoProbably]

\* lines 498-533: score and probably of a column of one base type
SingleScore(e, onlyType) ==
    LET sorted == SortDesc(e.formatCounts)
        top == sorted[1]
        s1 == Ratio(top.c, e.nonEmptyCount)
        g1 == [score |-> s1, probably |-> IF RatioLess(s1, Ratio(1, 1)) THEN Probably(top.k, <<>>) ELSE NoProbably]
        total == MapSum(sorted)
        categories == IF Len(e.strSeen) > 1
                      THEN (IF Len(e.strSeen) < 10 THEN Probably("Categories: ", e.strSeen)
                            ELSE Probably("Categories", <<>>))
                      ELSE Probably("Zero-variance column", <<>>)
        g2 == IF onlyType = "String" /\ Len(sorted) > 0 /\ total # 0
              THEN [score |-> Ratio(top.c, total),
                    probably |-> IF top.k = "Text" /\ e.hasStringDuplicate THEN categories
                                 ELSE Probably(top.k, <<>>)]
              ELSE g1
    IN IF e.nonEmptyCount > 0 THEN g2 ELSE [score |-> NoRatio, probably |-> NoProbably]

\* Descriptor counting the distinct values among the String cells only
DescriptorOfStrings(e, totalRows, type, format, g, extra, repeating, sequential) ==
    LET nonEmpty == e.nonEmptyCount
        distinct == Len(e.strValueCounts)
        completeness == Fraction(nonEmpty, totalRows)
        isUnique == distinct = nonEmpty /\ nonEmpty > 0
    IN [name |-> e.name,
        sourceName |-> e.sourceName,
        type |-> type,
        format |-> format,
        repeating |-> repeating,
        sequential |-> sequential,
        score |-> g.score,
        probably |-> g.probably,
        tally |-> e.formatCounts,
        completeness |-> completeness,
        distinctCount |-> distinct,
        cardinality |-> Fraction(distinct, nonEmpty),
        topK |-> Take(SortDesc(e.valueCounts), IF Len(e.valueCounts) < 5 THEN Len(e.valueCounts) ELSE 5),
        numStats |-> IF "numStats" \in extra /\ e.numStats.count # 0 THEN e.numStats
                     ELSE NewEntry(e.name, Undefined).numStats,
        textStats |-> IF "textStats" \in extra /\ e.textStats.count # 0 THEN e.textStats
                      ELSE NewEntry(e.name, Undefined).textStats,
        uniquenessRatio |-> Fraction(distinct, totalRows),
        isUnique |-> isUnique,
        isPrimaryKey |-> isUnique /\ RatioEq(completeness, Ratio(1, 1)),
        \* the optional fields the descriptor has (addResult drops an
        \* undefined probably and an undefined sourceName)
        has |-> (extra \cap {"repeating", "sequential"})
                 \cup (IF g.score # NoRatio THEN {"score"} ELSE {})
                 \cup (IF g.probably # NoProbably THEN {"probably"} ELSE {})
                 \cup (IF e.sourceName # Undefined THEN {"sourceName"} ELSE {})
                 \cup (IF "numStats" \in extra /\ e.numStats.count # 0 THEN {"numStats"} ELSE {})
                 \cup (IF "textStats" \in extra /\ e.textStats.count # 0 THEN {"textStats"} ELSE {})
                 \cup {"topK"}]

\* the fields every descriptor carries (lines 450-459 and their copies)
Descriptor(e, totalRows, type, format, g, extra, repeating, sequential) ==
    LET nonEmpty == e.nonEmptyCount
        distinct == Cardinality(e.uniqueValues)
        completeness == Fraction(nonEmpty, totalRows)
        isUnique == distinct = nonEmpty /\ nonEmpty > 0
    IN [name |-> e.name,
        sourceName |-> e.sourceName,
        type |-> type,
        format |-> format,
        repeating |-> repeating,
        sequential |-> sequential,
        score |-> g.score,
        probably |-> g.probably,
        tally |-> e.formatCounts,
        completeness |-> completeness,
        distinctCount |-> distinct,
        cardinality |-> Fraction(distinct, nonEmpty),
        topK |-> Take(SortDesc(e.valueCounts), IF Len(e.valueCounts) < 5 THEN Len(e.valueCounts) ELSE 5),
        numStats |-> IF "numStats" \in extra /\ e.numStats.count # 0 THEN e.numStats
                     ELSE NewEntry(e.name, Undefined).numStats,
        textStats |-> IF "textStats" \in extra /\ e.textStats.count # 0 THEN e.textStats
                      ELSE NewEntry(e.name, Undefined).textStats,
        uniquenessRatio |-> Fraction(distinct, totalRows),
        isUnique |-> isUnique,
        isPrimaryKey |-> isUnique /\ RatioEq(completeness, Ratio(1, 1)),
        \* the optional fields the descriptor has (addResult drops an
        \* undefined probably and an undefined sourceName)
        has |-> (extra \cap {"repeating", "sequential"})
                 \cup (IF g.score # NoRatio THEN {"score"} ELSE {})
                 \cup (IF g.probably # NoProbably THEN {"probably"} ELSE {})
                 \cup (IF e.sourceName # Undefined THEN {"sourceName"} ELSE {})
                 \cup (IF "numStats" \in extra /\ e.numStats.count # 0 THEN {"numStats"} ELSE {})
                 \cup (IF "textStats" \in extra /\ e.textStats.count # 0 THEN {"textStats"} ELSE {})
                 \cup {"topK"}]

\* the year heuristic without the test of the range 1800..2100
IsFourDigitColumn(e, fset) ==
    /\ "Currency" \notin fset /\ "Percentage" \notin fset /\ "Float" \notin fset
    /\ e.numCount > 0 /\ e.numFourDigitCount = e.numCount

\* lines 469-480: the year heuristic
IsYearColumn(e, fset) ==
    /\ "Currency" \notin fset /\ "Percentage" \notin fset /\ "Float" \notin fset
    /\ e.numCount > 0 /\ e.numFourDigitCount = e.numCount
    /\ e.numCount > 0 /\ e.numInRangeCount = e.numCount

\* the outcomes of one iteration of the resolver loop: [raised, emitted, d]
NotEmitted == [raised |-> FALSE, emitted |-> FALSE, d |-> <<>>]

Raised == [raised |-> TRUE, emitted |-> FALSE, d |-> <<>>]

Emit(d) == [raised |-> FALSE, emitted |-> TRUE, d |-> d]

\* lines 393-399: a column without a non-empty cell
ResolveEmpty(e, totalRows, dropEmptyColumns) ==
    IF dropEmptyColumns THEN NotEmitted
    ELSE Emit([Descriptor(e, totalRows, "String", NoFormat, [score |-> NoRatio, probably |-> NoProbably],
                          {}, FALSE, FALSE)
                 EXCEPT !.completeness = Ratio(0, 1), !.cardinality = Ratio(0, 1),
                        !.uniquenessRatio = Ratio(0, 1), !.isUnique = FALSE,
                        !.isPrimaryKey = FALSE, !.tally = <<>>, !.distinctCount = 0,
                        !.topK = <<>>, !.has = @ \ {"topK"}])

\* lines 482-495: the format of a column of one base type
FormatOfColumn(onlyType, fset, upgraded, guessedFormat) ==
    IF onlyType = "Date"
    THEN (IF (IF upgraded THEN "%Y" ELSE guessedFormat) = "__mixed__" THEN "mixed"
          ELSE (IF upgraded THEN "%Y" ELSE guessedFormat))
    ELSE IF Cardinality(fset) = 1
         THEN (IF fset = {"__none__"} THEN NoFormat ELSE CHOOSE f \in fset : TRUE)
    ELSE "mixed"

\* lines 535-586: the descriptor of a column of one base type
EmitSingle(e, totalRows, onlyType, format, g, sequential) ==
    IF onlyType = "String"
    THEN Emit(Descriptor(e, totalRows, onlyType, format, g, {"repeating", "textStats"},
                         e.hasStringDuplicate, FALSE))
    ELSE IF onlyType = "Number"
    THEN Emit(Descriptor(e, totalRows, onlyType, format, g, {"sequential", "numStats"}, FALSE, sequential))
    ELSE IF onlyType = "Date"
    THEN Emit(Descriptor(e, totalRows, onlyType, format, g, {"sequential"}, FALSE, sequential))
    ELSE Emit(Descriptor(e, totalRows, onlyType, format, g, {}, FALSE, FALSE))

\* lines 482-586; guessed is the result of guessColumnDateFormat, which is
\* called for a Date column only
ResolveSingle(e, totalRows, onlyType, fset, upgraded, guessed) ==
    IF onlyType = "Date" /\ guessed.raised THEN Raised
    ELSE EmitSingle(e, totalRows, onlyType,
                    FormatOfColumn(onlyType, fset, upgraded, guessed.format),
                    SingleScore(e, onlyType),
                    IF e.numCount >= 2 THEN e.isSequential ELSE FALSE)

\* lines 469-480 and on: the column after the year heuristic
ResolveUpgraded(e, rs, totalRows, type0, fset, upgraded) ==
    ResolveSingle(e, totalRows, IF upgraded THEN "Date" ELSE type0, fset, upgraded,
                  guessColumnDateFormat(rs, e.name))

\* lines 464-586: a column of the one base type type0 with the formats fset
ResolveTyped(e, rs, totalRows, type0, fset) ==
    ResolveUpgraded(e, rs, totalRows, type0, fset, type0 = "Number" /\ IsYearColumn(e, fset))

\* One iteration of the resolver loop (lines 392-587) for the entry e:
\* [raised, emitted, d].
ResolveColumn(e, rs, totalRows, dropEmptyColumns) ==
    IF ~e.sawNonEmpty THEN ResolveEmpty(e, totalRows, dropEmptyColumns)
    ELSE IF Cardinality(e.types) > 1
    THEN Emit(Descriptor(e, totalRows, "String", "mixed", MixedScore(e), {"repeating"},
                         e.hasStringDuplicate, FALSE))
    ELSE ResolveTyped(e, rs, totalRows, CHOOSE t \in e.types : TRUE,
                      {p[2] : p \in {q \in e.formatsByType : q[1] = (CHOOSE t \in e.types : TRUE)}})

(***************************************************************************)
(* The datasets of the model: a universe is the set of column keys, the    *)
(* set of cell values and the kinds of dataset entries rows are drawn from.*)
(***************************************************************************)
Alice == Str(<<"A", "l", "i", "c", "e">>)

Bob == Str(<<"B", "o", "b">>)

BobPadded == Str(<<" ", "B", "o", "b">>)

Empty == Str(<<>>)

Blank == Str(<<" ">>)

Five == Str(<<"5">>)

Six == Str(<<"6">>)

FiveDollars == Str(<<"$", "5">>)

FivePointO == Str(<<"5", ".", "0">>)

TwelvePercent == Str(<<"1", "2", "%">>)

OneAndAHalf == Str(<<"1", ".", "5", "0">>)

TrueUpper == Str(<<"T", "R", "U", "E">>)

FalseLower == Str(<<"f", "a", "l", "s", "e">>)

Y1999 == Str(<<"1", "9", "9", "9">>)

Y2000 == Str(<<"2", "0", "0", "0">>)

Y2001 == Str(<<"2", "0", "0", "1">>)

Y1500 == Str(<<"1", "5", "0", "0">>)

Y2000Dollars == Str(<<"$", "2", "0", "0", "0">>)

Y2000Half == Str(<<"2", "0", "0", "0", ".", "5">>)

IsoDate == Str(<<"2", "0", "2", "0", "-", "0", "1", "-", "0", "1">>)

IsoDate2 == Str(<<"2", "0", "2", "1", "-", "0", "5", "-", "0", "7">>)

NotAvailable == Str(<<"N", "/", "A">>)

ListAB == Str(<<"a", ",", "b">>)

ListCD == Str(<<"c", ";", "d">>)

TenThirty == Str(<<"1", "0", ":", "3", "0">>)

DayFirstDate == Str(<<"3", "1", "/", "1", "2", "/", "2", "0", "2", "0">>)

KeyName == <<"n", "a", "m", "e">>

KeyAge == <<"a", "g", "e">>

KeyYear == <<"y", "e", "a", "r">>

KeyWhen == <<"w", "h", "e", "n">>

KeyWhenPadded == <<" ", "w", "h", "e", "n">>

KeyEmpty == <<>>

KeyCol == <<"c", "o", "l">>

KeyColPadded == <<" ", "c", "o", "l">>

KeyCol2 == <<"c", "o", "l", "_", "2">>

KeyAmount == <<"a", "m", "o", "u", "n", "t">>

\* one column of text, with a number and a boolean
UniverseColumn ==
    [keys |-> {KeyName},
     values |-> {Alice, Bob, BobPadded, Five, Bool(TRUE), Empty},
     kinds |-> {"object"}]

\* one column of the number formats, with a date
UniverseNumbers ==
    [keys |-> {KeyAmount},
     values |-> {Five, FiveDollars, FivePointO, TwelvePercent, Num(5, 1), IsoDate},
     kinds |-> {"object"}]

\* two columns, of few values
UniverseTable ==
    [keys |-> {KeyName, KeyAge},
     values |-> {Alice, Five},
     kinds |-> {"object"}]

\* one column of years and of numbers that are not years
UniverseYears ==
    [keys |-> {KeyYear},
     values |-> {Y1999, Y2000, Y2001, Y1500, Y2000Dollars, Y2000Half, Num(2000, 1)},
     kinds |-> {"object"}]

\* date columns whose key the sanitizer changes
UniverseDates ==
    [keys |-> {KeyWhen, KeyWhenPadded},
     values |-> {IsoDate, DayFirstDate},
     kinds |-> {"object"}]

\* one column among entries that are not rows
UniverseEntries ==
    [keys |-> {KeyWhen},
     values |-> {IsoDate, IsoDate2, Five, Empty},
     kinds |-> {"object", "nullish", "primitive"}]

\* one column of numbers that follow each other or do not, with empty cells
UniverseSequence ==
    [keys |-> {KeyAge},
     values |-> {Five, Six, Empty},
     kinds |-> {"object"}]

\* one column of numbers with the null marker "N/A"
UniverseMarkers ==
    [keys |-> {KeyAmount},
     values |-> {Five, NotAvailable},
     kinds |-> {"object"}]

\* one column of delimited lists and percentages
UniverseLists ==
    [keys |-> {KeyName},
     values |-> {ListAB, ListCD, TwelvePercent},
     kinds |-> {"object"}]

\* raw keys that collide once sanitized
UniverseCollisions ==
    [keys |-> {KeyCol, KeyColPadded, KeyCol2},
     values |-> {Five},
     kinds |-> {"object"}]

\* one column of years written as amounts
UniversePrices ==
    [keys |-> {KeyAmount},
     values |-> {Y2000Dollars, Y1999, FiveDollars},
     kinds |-> {"object"}]

\* one column of cells the normalizers rewrite or leave alone
UniverseAmounts ==
    [keys |-> {KeyAmount},
     values |-> {FiveDollars, TwelvePercent, OneAndAHalf, Y2000, Num(5, 1), TrueUpper, Bool(FALSE),
                 Alice, Empty, Blank, Null},
     kinds |-> {"object"}]

\* the keys "" and "col", which the sanitizer both names from the base "col"
UniverseKeys ==
    [keys |-> {KeyEmpty, KeyCol},
     values |-> {Five, Alice, Empty},
     kinds |-> {"object", "nullish"}]

\* the universes of the inference pass
Universes ==
    {UniverseColumn, UniverseNumbers, UniverseTable, UniverseYears, UniverseDates, UniverseEntries,
     UniverseSequence, UniverseMarkers, UniverseLists, UniverseCollisions}

\* the universes of the formatter
FormatUniverses == {UniverseAmounts, UniverseKeys, UniversePrices}

\* one column of every type, among entries that are not rows
UniverseTypes ==
    [keys |-> {KeyWhen},
     values |-> {IsoDate, TenThirty, Y2000, Five, FivePointO, Bool(TRUE), Alice},
     kinds |-> {"object", "nullish", "primitive"}]

\* the universes of the converter: in UniverseTable a column is called "name"
JSONUniverses == {UniverseTable, UniverseTypes}

\* lines 589-604: rows.every(...) of the post-pass for the column called
\* name: "true", "false", or "raise" when a nullish row is read first
RECURSIVE EveryRowNumeric(_, _)
EveryRowNumeric(rs, name) ==
    IF rs = <<>> THEN "true"
    ELSE IF rs[1].kind = "nullish" THEN "raise"
    ELSE LET val == RowGet(rs[1], name)
             s == StringOf(val)
         IN IF IsNullish(val) \/ s = <<>> \/ (IsSignedDecimal(s) /\ s[1] # "+")
            THEN EveryRowNumeric(Tail(rs), name)
            ELSE "false"

PostPass(cols, rs, preferStringNumbers) ==
    LET numeric(i) == EveryRowNumeric(rs, cols[i].name)
        touched(i) == preferStringNumbers /\ cols[i].type = "Number"
    IN [raised |-> \E i \in 1..Len(cols) : touched(i) /\ numeric(i) = "raise",
        cols |-> [i \in 1..Len(cols) |->
                    IF touched(i) /\ numeric(i) = "false"
                    THEN [cols[i] EXCEPT !.type = "String", !.format = "mixed"]
                    ELSE cols[i]]]

\* the resolver loop (lines 392-587) over the entries of the accumulator map
ResolveEach(a, rs, dropEmptyColumns) ==
    [i \in 1..Len(a) |-> ResolveColumn(a[i], rs, Len(rs), dropEmptyColumns)]

DescriptorsOf(emitted) == [i \in 1..Len(emitted) |-> emitted[i].d]

\* results: the descriptors pushed, in the order of the map
Emitted(r) == DescriptorsOf(SelectSeq(r, LAMBDA x : x.emitted))

\* the outcome of getSchema from the outcomes r of the resolver loop and
\* the outcome post of the post-pass
Returned(r, post) ==
    IF (\E i \in 1..Len(r) : r[i].raised) \/ post.raised
    THEN [raised |-> TRUE, cols |-> <<>>]
    ELSE [raised |-> FALSE, cols |-> post.cols]

ResolveThen(r, rs, preferStringNumbers) == Returned(r, PostPass(Emitted(r), rs, preferStringNumbers))

\* the resolver loop and the post-pass on an accumulator map: [raised, cols]
ResolveAll(a, rs, preferStringNumbers, dropEmptyColumns) ==
    ResolveThen(ResolveEach(a, rs, dropEmptyColumns), rs, preferStringNumbers)

EmptyAccumulator == [acc |-> <<>>, used |-> {}, o2s |-> <<>>]

RECURSIVE AccumulateRow(_, _, _, _)
AccumulateRow(st, cells, preferStringNumbers, sanitizeKeys) ==
    IF cells = <<>> THEN st
    ELSE AccumulateRow(AccumulateCell(st, cells[1].k, cells[1].v, preferStringNumbers, sanitizeKeys),
                       Tail(cells), preferStringNumbers, sanitizeKeys)

\* lines 251-383: the loop over the rows; entries that are not objects are skipped
RECURSIVE AccumulateRows(_, _, _, _)
AccumulateRows(st, rs, preferStringNumbers, sanitizeKeys) ==
    IF rs = <<>> THEN st
    ELSE AccumulateRows(IF rs[1].kind = "object"
                        THEN AccumulateRow(st, rs[1].cells, preferStringNumbers, sanitizeKeys)
                        ELSE st,
                        Tail(rs), preferStringNumbers, sanitizeKeys)

\* getSchema(rows, { preferStringNumbers, sanitizeKeys, dropEmptyColumns }): [raised, cols]
getSchema(rs, opts) ==
    ResolveAll(AccumulateRows(EmptyAccumulator, rs, opts.preferStringNumbers, opts.sanitizeKeys).acc,
               rs, opts.preferStringNumbers, opts.dropEmptyColumns)

(***************************************************************************)
(* dataFormat.                                                             *)
(***************************************************************************)
\* dst[key] = val
RowSet(cells, key, val) ==
    IF \E i \in 1..Len(cells) : cells[i].k = key
    THEN [i \in 1..Len(cells) |-> IF cells[i].k = key THEN [k |-> key, v |-> val] ELSE cells[i]]
    ELSE Append(cells, [k |-> key, v |-> val])

\* lines 108-121: the loop over the columns of the schema for one row
RECURSIVE FormatRow(_, _, _, _, _)
FormatRow(dst, src, cols, sanitize, numberEmptyAsNull) ==
    IF cols = <<>> THEN dst
    ELSE LET col == cols[1]
             key == col.name
             sourceKey == IF sanitize /\ col.sourceName # Undefined /\ col.sourceName.s # <<>>
                          THEN col.sourceName.s ELSE key
             val == RowGet(src, sourceKey)
             new == IF col.type = "Number" THEN normalizeNumber(val, numberEmptyAsNull)
                    ELSE IF col.type = "Boolean" THEN normalizeBoolean(val)
                    ELSE val
         IN FormatRow(IF RowHas(src, sourceKey) THEN RowSet(dst, key, new) ELSE dst,
                      src, Tail(cols), sanitize, numberEmptyAsNull)

\* lines 99-124 with the schema of line 98
FormatWith(rs, opts, schema) ==
    IF schema.raised \/ (schema.cols # <<>> /\ HasNullRow(rs))
    THEN [raised |-> TRUE, rows |-> <<>>]
    ELSE [raised |-> FALSE,
          rows |-> [i \in 1..Len(rs) |->
                      ObjectRow(FormatRow(IF opts.sanitizeKeys \/ opts.dropEmptyColumns
                                          THEN <<>> ELSE rs[i].cells,
                                          rs[i], schema.cols,
                                          opts.sanitizeKeys, opts.numberEmptyAsNull))]]

\* dataFormat(dataset, options): [raised, rows]
dataFormat(rs, opts) == FormatWith(rs, opts, getSchema(rs, opts))

(***************************************************************************)
(* toJSONSchema.  A column, as the loop of lines 626-665 reads it, is       *)
(* [name, type, format, hasNumStats, numStats, hasTextStats, textStats,     *)
(* complete]; the result is [raised, properties, required], properties a    *)
(* sequence of [k, v] in insertion order and an empty required the deleted  *)
(* field.                                                                   *)
(***************************************************************************)
\* a field a schema object does not have
Absent == "<absent>"

NoJSON == [raised |-> FALSE, properties |-> <<>>, required |-> <<>>]

RaisedJSON == [raised |-> TRUE, properties |-> <<>>, required |-> <<>>]

\* the pattern of a year column (line 645)
YearPattern == "^(?:18|19|20|21)\\d{2}$"

\* the pattern of a financial-year column (line 656)
FinancialYearPattern == "^(?:19|20)\\d{2}[-\\u2013]\\d{2}$"

\* the formats /^%Y[-/]%m[-/]%d$/ matches
DateOnlyFormats == {"%Y" \o a \o "%m" \o b \o "%d" : a \in {"-", "/"}, b \in {"-", "/"}}

\* the formats of guessDateFormatFromString that /%H|%I/ matches
HourFormats ==
    {"%I:%M:%S %p", "%I:%M %p", "%H:%M:%S", "%H:%M"} \cup
    {"%Y-%m-%d" \o sep \o "%H:%M" \o sec \o frac \o zone :
        sep \in {"T", " "}, sec \in {"", ":%S"}, frac \in {"", ".%f"}, zone \in {"", "%z"}}

\* a descriptor of getSchema as a column
ColumnOfDescriptor(d) ==
    [name |-> d.name, type |-> d.type, format |-> d.format,
     hasNumStats |-> "numStats" \in d.has, numStats |-> d.numStats,
     hasTextStats |-> "textStats" \in d.has, textStats |-> d.textStats,
     complete |-> RatioEq(d.completeness, Ratio(1, 1))]

\* An entry of a dataset read as a column.  The rows of the model carry none
\* of the keys type, format, numStats, textStats and completeness, so these
\* are undefined; the name is the value under the key "name".
ColumnOfEntry(row) ==
    [name |-> StringOf(RowGet(row, KeyName)), type |-> "<undefined>", format |-> NoFormat,
     hasNumStats |-> FALSE, numStats |-> NewEntry(<<>>, Undefined).numStats,
     hasTextStats |-> FALSE, textStats |-> NewEntry(<<>>, Undefined).textStats,
     complete |-> FALSE]

\* lines 628-637
NumberSchema(col) ==
    [type |-> IF col.format = "Integer" THEN "integer" ELSE "number",
     pattern |-> Absent, format |-> Absent,
     minimum |-> IF col.hasNumStats /\ IsFinite(col.numStats.min) THEN col.numStats.min ELSE Undefined,
     maximum |-> IF col.hasNumStats /\ IsFinite(col.numStats.max) THEN col.numStats.max ELSE Undefined,
     minLength |-> Undefined, maxLength |-> Undefined]

\* lines 638-639
BooleanSchema ==
    [type |-> "boolean", pattern |-> Absent, format |-> Absent,
     minimum |-> Undefined, maximum |-> Undefined, minLength |-> Undefined, maxLength |-> Undefined]

\* lines 640-651
DateSchema(col) ==
    [type |-> "string",
     pattern |-> IF col.format = "%Y" THEN YearPattern ELSE Absent,
     format |-> IF col.format \in DateOnlyFormats THEN "date"
                ELSE IF col.format \in HourFormats THEN "date-time"
                ELSE Absent,
     minimum |-> Undefined, maximum |-> Undefined, minLength |-> Undefined, maxLength |-> Undefined]

\* lines 652-661
StringSchema(col) ==
    [type |-> "string",
     pattern |-> IF col.format = "Financial year" THEN FinancialYearPattern ELSE Absent,
     format |-> Absent,
     minimum |-> Undefined, maximum |-> Undefined,
     minLength |-> IF col.hasTextStats /\ IsFinite(col.textStats.minLen) THEN col.textStats.minLen
                   ELSE Undefined,
     maxLength |-> IF col.hasTextStats THEN Num(col.textStats.maxLen, 1) ELSE Undefined]

\* lines 627-662: the schema of one column
ColumnSchema(col) ==
    IF col.type = "Number" THEN NumberSchema(col)
    ELSE IF col.type = "Boolean" THEN BooleanSchema
    ELSE IF col.type = "Date" THEN DateSchema(col)
    ELSE StringSchema(col)

\* lines 626-665: the loop over the columns
RECURSIVE AddColumns(_, _)
AddColumns(js, cols) ==
    IF cols = <<>> THEN js
    ELSE AddColumns([raised |-> FALSE,
                     properties |-> RowSet(js.properties, cols[1].name, ColumnSchema(cols[1])),
                     required |-> IF cols[1].complete THEN Append(js.required, cols[1].name)
                                  ELSE js.required],
                    Tail(cols))

\* lines 623-675 on an array of descriptors of getSchema, or its raising
SchemaOfInferred(schema) ==
    IF schema.raised THEN RaisedJSON
    ELSE AddColumns(NoJSON, [i \in 1..Len(schema.cols) |-> ColumnOfDescriptor(schema.cols[i])])

\* lines 623-675 on the entries of a dataset taken for descriptors; reading
\* col.type of a null or undefined entry raises
SchemaOfEntries(rs) ==
    IF HasNullRow(rs) THEN RaisedJSON
    ELSE AddColumns(NoJSON, [i \in 1..Len(rs) |-> ColumnOfEntry(rs[i])])

\* toJSONSchema(input, options) on a dataset (lines 617-621: the dataset is
\* inferred first when its first entry is an object without the key "name";
\* 'name' in null raises)
toJSONSchema(rs, opts) ==
    IF rs # <<>> /\ rs[1].kind = "nullish" THEN RaisedJSON
    ELSE IF rs # <<>> /\ rs[1].kind = "object" /\ ~RowHas(rs[1], KeyName)
    THEN SchemaOfInferred(getSchema(rs, opts))
    ELSE SchemaOfEntries(rs)

(***************************************************************************)
(* The inference pass as a state machine: the rows of the dataset are read *)
(* one cell at a time (a row or a cell the loop has not reached yet has had *)
(* no effect, so it is drawn when the loop reaches it), then the resolver  *)
(* runs.  The formatter is a second machine on the same loop: dataFormat  *)
(* is applied to the dataset read so far, and then to its own output.      *)
(* An option is drawn where the code first reads it.                       *)
(***************************************************************************)
CellCount(rs) == IF rs = <<>> THEN 0 ELSE MapSum([i \in 1..Len(rs) |-> [k |-> i, c |-> Len(rs[i].cells)]])

InitIn(universes) ==
    /\ universe \in universes
    /\ options \in [preferStringNumbers : BOOLEAN, sanitizeKeys : BOOLEAN,
                    dropEmptyColumns : {FALSE}, numberEmptyAsNull : {TRUE}]
    /\ rows = <<>>
    /\ acc = <<>>
    /\ usedSanitized = {}
    /\ originalToSanitized = <<>>
    /\ pc = "accumulate"
    /\ results = [raised |-> FALSE, cols |-> <<>>]
    /\ out = [raised |-> FALSE, rows |-> <<>>]
    /\ out2 = [raised |-> FALSE, rows |-> <<>>]
    /\ json = NoJSON
    /\ arg = [value |-> Null, emptyAsNull |-> FALSE]
    /\ ret = Null

Init == InitIn(Universes)

\* for (const row of rows): the next entry of the dataset
NextRow ==
    /\ pc = "accumulate"
    /\ Len(rows) < MaxRows
    /\ \E kind \in universe.kinds : rows' = Append(rows, [kind |-> kind, cells |-> <<>>])
    /\ UNCHANGED <<universe, options, acc, usedSanitized, originalToSanitized, pc, results, out, out2, json, arg, ret>>

\* for (const col in row): the next cell of the current row
Accumulate ==
    /\ pc = "accumulate"
    /\ rows # <<>> /\ Last(rows).kind = "object"
    /\ CellCount(rows) < MaxCells
    /\ \E col \in universe.keys : \E v \in universe.values :
         /\ ~RowHas(Last(rows), col)
         /\ rows' = [rows EXCEPT ![Len(rows)].cells = Append(@, [k |-> col, v |-> v])]
         /\ \E st \in {AccumulateCell([acc |-> acc, used |-> usedSanitized, o2s |-> originalToSanitized],
                                        col, v, options.preferStringNumbers, options.sanitizeKeys)} :
               /\ acc' = st.acc
               /\ usedSanitized' = st.used
               /\ originalToSanitized' = st.o2s
    /\ UNCHANGED <<universe, options, pc, results, out, out2, json, arg, ret>>

\* the loop over the rows has ended: the resolver and the post-pass
Resolve ==
    /\ pc = "accumulate"
    /\ \E drop \in BOOLEAN :
         /\ options' = [options EXCEPT !.dropEmptyColumns = drop]
         /\ results' = ResolveAll(acc, rows, options.preferStringNumbers, drop)
    /\ pc' = IF results'.raised THEN "raised" ELSE "resolved"
    /\ UNCHANGED <<universe, rows, acc, usedSanitized, originalToSanitized, out, out2, json, arg, ret>>

\* dataFormat(rows, options) on the dataset read so far
Format ==
    /\ pc = "accumulate"
    /\ \E drop \in BOOLEAN : \E nean \in BOOLEAN :
         /\ options' = [options EXCEPT !.dropEmptyColumns = drop, !.numberEmptyAsNull = nean]
         /\ out' = dataFormat(rows, options')
    /\ pc' = IF out'.raised THEN "formatRaised" ELSE "formatted"
    /\ UNCHANGED <<universe, rows, acc, usedSanitized, originalToSanitized, results, out2, json, arg, ret>>

\* dataFormat(out, options) on the output of dataFormat
FormatAgain ==
    /\ pc = "formatted"
    /\ out2' = dataFormat(out.rows, options)
    /\ pc' = "reformatted"
    /\ UNCHANGED <<universe, options, rows, acc, usedSanitized, originalToSanitized, results, out, json, arg, ret>>

\* toJSONSchema(rows, options) on the dataset read so far
Convert ==
    /\ pc = "accumulate"
    /\ \E drop \in BOOLEAN :
         /\ options' = [options EXCEPT !.dropEmptyColumns = drop]
         /\ json' = toJSONSchema(rows, options')
    /\ pc' = IF json'.raised THEN "convertRaised" ELSE "converted"
    /\ UNCHANGED <<universe, rows, acc, usedSanitized, originalToSanitized, results, out, out2, arg, ret>>

Next == NextRow \/ Accumulate \/ Resolve

Spec == Init /\ [][Next]_vars

InitFormat == InitIn(FormatUniverses)

NextFormat == NextRow \/ Accumulate \/ Format \/ FormatAgain

SpecFormat == InitFormat /\ [][NextFormat]_vars

InitJSON == InitIn(JSONUniverses)

NextJSON == NextRow \/ Accumulate \/ Convert

SpecJSON == InitJSON /\ [][NextJSON]_vars

(***************************************************************************)
(* normalizeNumber as a machine of its own: an argument is drawn, the call *)
(* returns.  A written number is a decimal (digit groups, fraction and the *)
(* number they denote) with its decorations; the other arguments are the   *)
(* strings of at most MaxLen characters of NormAlphabet and native values. *)
(***************************************************************************)
MaxLen == 3

NormAlphabet == {"a", "1", "$", "%", ",", " ", "-", "."}

Decimals ==
    {[groups |-> <<<<"1", "2">>>>, frac |-> <<>>, num |-> 12, den |-> 1],
     [groups |-> <<<<"2">>, <<"3", "4", "5">>>>, frac |-> <<"5", "0">>, num |-> 23455, den |-> 10],
     [groups |-> <<<<"0">>>>, frac |-> <<"0", "5">>, num |-> 5, den |-> 100],
     [groups |-> <<<<"1">>, <<"0", "0", "0">>, <<"0", "0", "0">>>>, frac |-> <<>>, num |-> 1000000, den |-> 1],
     [groups |-> <<<<"2", "0", "0", "0">>>>, frac |-> <<"0">>, num |-> 2000, den |-> 1]}

Signs == {<<>>, <<"-">>, <<"+">>}

SymbolPrefixes == {<<>>, <<"$">>, <<"euro">>, <<"pound", " ">>}

PercentSuffixes == {<<>>, <<"%">>, <<" ", "%">>}

CodeSuffixes == {<<>>, <<"U", "S", "D">>, <<" ", "e", "u", "r">>}

Paddings == {<<>>, <<" ">>}

RECURSIVE JoinGroups(_)
JoinGroups(gs) == IF Len(gs) = 1 THEN gs[1] ELSE gs[1] \o <<",">> \o JoinGroups(Tail(gs))

\* the text of a decimal with its decorations
Written(d, sign, sym, pct, code, pad) ==
    pad \o sym \o sign \o JoinGroups(d.groups)
        \o (IF d.frac = <<>> THEN <<>> ELSE <<".">> \o d.frac) \o pct \o code \o pad

\* the number a decimal denotes under a sign
Denoted(d, sign) ==
    [t |-> "number", s |-> <<>>, num |-> IF sign = <<"-">> THEN 0 - d.num ELSE d.num, den |-> d.den, b |-> FALSE]

RECURSIVE StringsUpTo(_)
StringsUpTo(n) ==
    IF n = 0 THEN {<<>>}
    ELSE LET shorter == StringsUpTo(n - 1)
         IN shorter \cup {Append(s, c) : s \in {x \in shorter : Len(x) = n - 1}, c \in NormAlphabet}

Apples == Str(<<"1", "2", " ", "a", "p", "p", "l", "e", "s">>)

NormArguments ==
    {[value |-> Str(Written(d, sign, sym, pct, code, pad)), expected |-> Denoted(d, sign)] :
        d \in Decimals, sign \in Signs, sym \in SymbolPrefixes, pct \in PercentSuffixes,
        code \in CodeSuffixes, pad \in Paddings}
    \cup {[value |-> Str(s), expected |-> Undefined] : s \in StringsUpTo(MaxLen)}
    \cup {[value |-> v, expected |-> Undefined] :
            v \in {Apples, NotAvailable, Null, Undefined, Num(12, 1), Num(0 - 5, 10), Infinity, Bool(TRUE)}}

InitNorm ==
    /\ arg \in [value : {a.value : a \in NormArguments}, emptyAsNull : BOOLEAN]
    /\ ret = Null
    /\ pc = "call"
    /\ universe = [keys |-> {}, values |-> {}, kinds |-> {}]
    /\ options = [preferStringNumbers |-> FALSE, sanitizeKeys |-> FALSE,
                  dropEmptyColumns |-> FALSE, numberEmptyAsNull |-> TRUE]
    /\ rows = <<>>
    /\ acc = <<>>
    /\ usedSanitized = {}
    /\ originalToSanitized = <<>>
    /\ results = [raised |-> FALSE, cols |-> <<>>]
    /\ out = [raised |-> FALSE, rows |-> <<>>]
    /\ out2 = [raised |-> FALSE, rows |-> <<>>]
    /\ json = NoJSON

\* normalizeNumber(value, { emptyAsNull })
Normalize ==
    /\ pc = "call"
    /\ ret' = normalizeNumber(arg.value, arg.emptyAsNull)
    /\ pc' = "returned"
    /\ UNCHANGED <<universe, options, rows, acc, usedSanitized, originalToSanitized, results, out, out2, json, arg>>

NextNorm == Normalize

SpecNorm == InitNorm /\ [][NextNorm]_vars

\* the decimals a written argument denotes (one, unless two writings coincide)
ExpectedOf(value) == {a.expected : a \in {x \in NormArguments : x.value = value /\ x.expected # Undefined}}

AllSpaces(s) == \A i \in 1..Len(s) : IsSpace(s[i])

\* C8: normalizeNumber returns the number a decorated decimal denotes (the
\* currency symbol, the currency code, the grouping commas and the percent
\* sign stripped, a percentage not divided by 100), returns a native number
\* as it is, and for null, undefined and blank strings returns null when
\* emptyAsNull is true and the argument otherwise.
C8_NormalizeNumber ==
    pc = "returned" =>
        /\ \A e \in ExpectedOf(arg.value) : ret = e
        /\ arg.value.t = "number" => ret = arg.value
        /\ (IsNullish(arg.value) \/ (arg.value.t = "string" /\ AllSpaces(arg.value.s)))
              => ret = (IF arg.emptyAsNull THEN Null ELSE arg.value)

\* "$2,345.50" has been normalized with a percent sign and a currency code
C8_Witness ==
    /\ pc = "returned"
    /\ arg.value = Str(<<"$", "2", ",", "3", "4", "5", ".", "5", "0", "%", "U", "S", "D">>)
    /\ ret = Num(23455, 10)

\* C9 as claimed: a non-empty value whose residual is not a clean signed
\* decimal is returned unchanged, whatever emptyAsNull is.
C9_OriginalReturned ==
    (/\ pc = "returned"
     /\ arg.value.t = "string"
     /\ ~AllSpaces(arg.value.s)
     /\ ~IsSignedDecimal(NumericResidual(Trim(arg.value.s))))
        => ret = arg.value

\* "N/A" with emptyAsNull true has come back as null
C9_FailingInput ==
    /\ pc = "returned"
    /\ arg.value = NotAvailable /\ arg.emptyAsNull
    /\ ret = Null

(***************************************************************************)
(* The columns of a dataset, read off the rows.                            *)
(***************************************************************************)
\* the cells of the column with the raw key col, in row order
RECURSIVE ColumnCells(_, _)
ColumnCells(rs, col) ==
    IF rs = <<>> THEN <<>>
    ELSE (IF rs[1].kind = "object" /\ RowHas(rs[1], col) THEN <<RowGet(rs[1], col)>> ELSE <<>>)
         \o ColumnCells(Tail(rs), col)

\* a cell is empty when it is null, undefined or blank
NonEmpty(v) == ~IsNullish(v) /\ ~AllSpaces(StringOf(v))

\* the non-empty cells of a column
Observations(rs, col) == SelectSeq(ColumnCells(rs, col), NonEmpty)

\* the raw key of the column an accumulator entry or a descriptor stands for
RawKey(c) == IF options.sanitizeKeys THEN c.sourceName.s ELSE c.name

\* the classifications of the non-empty cells of a column
Classes(rs, col) ==
    LET obs == Observations(rs, col)
    IN [i \in 1..Len(obs) |-> detectTypeAndFormat(obs[i], options.preferStringNumbers)]

BaseTypes(rs, col) ==
    LET cls == Classes(rs, col)
    IN {cls[i].type : i \in 1..Len(cls)}

MaxCount(m) == IF m = <<>> THEN 0 ELSE CHOOSE c \in {m[i].c : i \in 1..Len(m)} : \A j \in 1..Len(m) : m[j].c <= c

\* the distinct non-empty values of a column, strings compared trimmed
DistinctValues(rs, col) ==
    LET obs == Observations(rs, col)
    IN {IF obs[i].t = "string" THEN Trim(obs[i].s) ELSE StringOf(obs[i]) : i \in 1..Len(obs)}

\* C1: at every point of the accumulation the format counts and the type
\* counts of every column each sum to its nonEmptyCount, which is the number
\* of non-empty cells read for the column; the tally of every descriptor
\* sums to the number of non-empty cells of its column.
C1_CountsSumToNonEmpty ==
    /\ \A i \in 1..Len(acc) :
          /\ MapSum(acc[i].formatCounts) = acc[i].nonEmptyCount
          /\ MapSum(acc[i].typeCounts) = acc[i].nonEmptyCount
          /\ acc[i].nonEmptyCount = Len(Observations(rows, RawKey(acc[i])))
    /\ pc = "resolved" =>
          \A i \in 1..Len(results.cols) :
              MapSum(results.cols[i].tally) = Len(Observations(rows, RawKey(results.cols[i])))

\* a descriptor whose tally has two labels, one of them counted twice
C1_Witness ==
    /\ pc = "resolved"
    /\ \E i \in 1..Len(results.cols) :
          /\ Len(results.cols[i].tally) = 2
          /\ MapSum(results.cols[i].tally) = 3
          /\ Len(AccGet(acc, results.cols[i].name).typeCounts) = 2

\* C2: the score of every descriptor is the largest count of its tally over
\* the sum of the counts, a ratio between 0 and 1.
C2_ScoreIsDominance ==
    pc = "resolved" =>
        \A i \in 1..Len(results.cols) :
            LET d == results.cols[i]
            IN /\ "score" \in d.has
               /\ d.score.d > 0
               /\ RatioEq(d.score, Ratio(MaxCount(d.tally), MapSum(d.tally)))
               /\ d.score.n >= 0 /\ d.score.n <= d.score.d

\* a column of a string and a number, and a column of one type, resolved
C2_Witness ==
    /\ pc = "resolved"
    /\ \E i \in 1..Len(results.cols) :
          /\ results.cols[i].format = "mixed"
          /\ AccGet(acc, results.cols[i].name).strObsCount = 1
          /\ RatioEq(results.cols[i].score, Ratio(1, 2))
    /\ \E i \in 1..Len(results.cols) :
          /\ results.cols[i].type # "String"
          /\ RatioEq(results.cols[i].score, Ratio(1, 1))

\* C3: a column with non-empty values of more than one base type gets type
\* String and format "mixed", and its tally, completeness, distinctCount and
\* cardinality count all its non-empty cells.
C3_MixedColumn ==
    pc = "resolved" =>
        \A i \in 1..Len(results.cols) :
            LET d == results.cols[i]
                col == RawKey(d)
                cls == Classes(rows, col)
                n == Len(cls)
                distinct == Cardinality(DistinctValues(rows, col))
            IN Cardinality({cls[k].type : k \in 1..n}) > 1 =>
                  /\ d.type = "String" /\ d.format = "mixed"
                  /\ MapSum(d.tally) = n
                  /\ \A j \in 1..Len(d.tally) :
                        d.tally[j].c = Cardinality({k \in 1..n : cls[k].format = d.tally[j].k})
                  /\ RatioEq(d.completeness, Ratio(n, Len(rows)))
                  /\ d.distinctCount = distinct
                  /\ RatioEq(d.cardinality, Ratio(distinct, n))

\* a resolved column of a string, a number and a boolean
C3_Witness ==
    /\ pc = "resolved"
    /\ \E i \in 1..Len(results.cols) :
          /\ BaseTypes(rows, RawKey(results.cols[i])) = {"String", "Number", "Boolean"}
          /\ results.cols[i].format = "mixed"
          /\ results.cols[i].distinctCount = 3

\* the numbers of the non-empty cells of a column
NumericValues(rs, col) ==
    LET obs == Observations(rs, col)
    IN [i \in 1..Len(obs) |-> normalizeNumber(obs[i], FALSE)]

IsYear(n) == IsInteger(n) /\ n.num >= 1800 /\ n.num <= 2100

\* at least two numbers, each one more than the number before it
IsRun(ns) == Len(ns) >= 2 /\ \A i \in 2..Len(ns) : DiffIsOne(ns[i], ns[i - 1])

\* C4: a column whose non-empty values are all classified Number is resolved
\* as Date with format "%Y" exactly when none of them is tagged Currency,
\* Percentage or Float and all of them are integers within 1800..2100, and
\* stays Number otherwise; the upgraded descriptor has the sequential flag
\* of the numeric values.
C4_YearUpgrade ==
    pc = "resolved" =>
        \A i \in 1..Len(results.cols) :
            LET d == results.cols[i]
                col == RawKey(d)
                cls == Classes(rows, col)
                ns == NumericValues(rows, col)
                years == /\ \A k \in 1..Len(cls) : cls[k].format \notin {"Currency", "Percentage", "Float"}
                         /\ \A k \in 1..Len(ns) : IsYear(ns[k])
            IN {cls[k].type : k \in 1..Len(cls)} = {"Number"} =>
                  /\ years => d.type = "Date" /\ d.format = "%Y" /\ d.sequential = IsRun(ns)
                                /\ "sequential" \in d.has
                  /\ ~years => d.type = "Number" /\ d.format # "%Y"

\* 1999, 2000, 2001 resolved as a sequential Date column
C4_Witness ==
    /\ pc = "resolved"
    /\ ColumnCells(rows, KeyYear) = <<Y1999, Y2000, Y2001>>
    /\ results.cols[1].type = "Date" /\ results.cols[1].format = "%Y" /\ results.cols[1].sequential

\* 1999, 2000, 1500 resolved as a Number column
C4_WitnessOutOfRange ==
    /\ pc = "resolved"
    /\ ColumnCells(rows, KeyYear) = <<Y1999, Y2000, Y1500>>
    /\ results.cols[1].type = "Number"

\* the strftime tokens of the non-empty cells of a column
Tokens(rs, col) ==
    LET obs == Observations(rs, col)
    IN {guessDateFormatFromString(StringOf(obs[i])) : i \in 1..Len(obs)}

\* C5 as claimed: the format of a column whose non-empty values are all
\* classified Date is the one token its values yield, or "mixed" when they
\* yield two or more, and never "__mixed__".
C5_DateColumnFormat ==
    pc = "resolved" =>
        \A i \in 1..Len(results.cols) :
            LET d == results.cols[i]
                col == RawKey(d)
                tokens == Tokens(rows, col)
            IN /\ d.format # "__mixed__"
               /\ BaseTypes(rows, col) = {"Date"} =>
                     d.format = (IF Cardinality(tokens) = 1 THEN CHOOSE t \in tokens : TRUE ELSE "mixed")

\* under sanitizeKeys the column of the raw key " when", whose one value is
\* "2020-01-01", has been resolved as Date with no format
C5_FailingInput ==
    /\ pc = "resolved"
    /\ options.sanitizeKeys
    /\ rows = <<ObjectRow(<<[k |-> KeyWhenPadded, v |-> IsoDate]>>)>>
    /\ Tokens(rows, KeyWhenPadded) = {"%Y-%m-%d"}
    /\ results.cols[1].type = "Date" /\ results.cols[1].format = NoFormat

\* the number of cells of a column whose value, as topK writes it, is key
Occurrences(rs, col, key) ==
    LET obs == Observations(rs, col)
    IN Cardinality({i \in 1..Len(obs) : Trim(StringOf(obs[i])) = key})

\* C10 as claimed: every non-empty cell of a column is counted in its value
\* counts, and topK lists at most 5 values with their numbers of occurrences,
\* the most frequent first.
C10_TopK ==
    pc = "resolved" =>
        \A i \in 1..Len(results.cols) :
            LET d == results.cols[i]
                col == RawKey(d)
            IN /\ MapSum(AccGet(acc, d.name).valueCounts) = Len(Observations(rows, col))
               /\ Len(d.topK) <= 5
               /\ \A j \in 1..Len(d.topK) : d.topK[j].c = Occurrences(rows, col, d.topK[j].k)
               /\ \A j \in 2..Len(d.topK) : d.topK[j - 1].c >= d.topK[j].c

\* a column of the one cell true has been resolved with an empty topK
C10_FailingInput ==
    /\ pc = "resolved"
    /\ ColumnCells(rows, KeyName) = <<Bool(TRUE)>>
    /\ results.cols[1].type = "Boolean"
    /\ results.cols[1].topK = <<>>

\* C6 as claimed: in the output of dataFormat a cell of a Number column is a
\* native number, or null for an empty input cell when numberEmptyAsNull is
\* true, or the empty input cell itself when it is false; a "true" or "false"
\* string of a Boolean column has become the boolean; a cell of a column of
\* another type is the input cell.
C6_FormattedCells ==
    pc = "formatted" =>
        LET schema == getSchema(rows, options).cols
        IN \A j \in 1..Len(schema) : \A i \in 1..Len(rows) :
              LET c == schema[j]
                  o == RowGet(out.rows[i], c.name)
                  inp == RowGet(rows[i], RawKey(c))
                  word == ToLower(Trim(StringOf(inp)))
              IN RowHas(out.rows[i], c.name) =>
                    /\ c.type = "Number" =>
                          \/ o.t = "number"
                          \/ /\ ~NonEmpty(inp)
                             /\ o = (IF options.numberEmptyAsNull THEN Null ELSE inp)
                    /\ (c.type = "Boolean" /\ inp.t = "string") =>
                          /\ word = <<"t", "r", "u", "e">> => o = Bool(TRUE)
                          /\ word = <<"f", "a", "l", "s", "e">> => o = Bool(FALSE)
                    /\ c.type \notin {"Number", "Boolean"} => o = inp

\* under sanitizeKeys the row {"": "5", "col": "Alice"} has been formatted:
\* the Number column col of the raw key "" holds null, read from "Alice"
C6_FailingInput ==
    /\ pc = "formatted"
    /\ options.sanitizeKeys /\ options.numberEmptyAsNull
    /\ rows = <<ObjectRow(<<[k |-> KeyEmpty, v |-> Five], [k |-> KeyCol, v |-> Alice]>>)>>
    /\ getSchema(rows, options).cols[1].type = "Number"
    /\ RowGet(out.rows[1], KeyCol) = Null

\* C7 as claimed: formatting the output of dataFormat again, under the same
\* options, returns the same rows, keys and cell values.
C7_FormatIdempotent ==
    pc = "reformatted" => ~out2.raised /\ out2.rows = out.rows

\* the same row formatted twice: the second output has lost the key col
C7_FailingInput ==
    /\ pc = "reformatted"
    /\ options.sanitizeKeys /\ options.numberEmptyAsNull
    /\ rows = <<ObjectRow(<<[k |-> KeyEmpty, v |-> Five], [k |-> KeyCol, v |-> Alice]>>)>>
    /\ RowHas(out.rows[1], KeyCol) /\ ~RowHas(out2.rows[1], KeyCol)

\* some non-empty value of the column, trimmed, is the value of two cells
HasDuplicate(rs, col) ==
    LET obs == Observations(rs, col)
    IN \E i \in 1..Len(obs) : \E j \in 1..Len(obs) :
          i < j /\ Trim(StringOf(obs[i])) = Trim(StringOf(obs[j]))

\* C11 as claimed: every descriptor of type String, of a column of strings
\* and of a column of several base types alike, has repeating true exactly
\* when some non-empty value, compared trimmed, occurs in two or more rows of
\* the column.
C11_Repeating ==
    pc = "resolved" =>
        \A i \in 1..Len(results.cols) :
            results.cols[i].type = "String" =>
                /\ "repeating" \in results.cols[i].has
                /\ results.cols[i].repeating = HasDuplicate(rows, RawKey(results.cols[i]))

\* the column of "5", "5", "Alice" has been resolved as String/mixed with
\* repeating false
C11_FailingInput ==
    /\ pc = "resolved"
    /\ ColumnCells(rows, KeyName) = <<Five, Five, Alice>>
    /\ results.cols[1].type = "String" /\ results.cols[1].format = "mixed"
    /\ ~results.cols[1].repeating

\* a column of strings alone has repeating true for " Bob" and "Bob"
C11_TrimmedDuplicate ==
    /\ pc = "resolved"
    /\ ColumnCells(rows, KeyName) = <<BobPadded, Alice, Bob>>
    /\ results.cols[1].type = "String" /\ results.cols[1].repeating

\* the numeric observations of a column: the numbers of the cells classified
\* Number, in row order
NumbersObserved(rs, col) ==
    LET isNumeric(v) == /\ detectTypeAndFormat(v, options.preferStringNumbers).type = "Number"
                        /\ IsFinite(normalizeNumber(v, FALSE))
        kept == SelectSeq(Observations(rs, col), isNumeric)
    IN [i \in 1..Len(kept) |-> normalizeNumber(kept[i], FALSE)]

\* every number is exactly 1 greater than the number before it
NoViolation(ns) == \A i \in 2..Len(ns) : DiffIsOne(ns[i], ns[i - 1])

\* isSequential of every column is true as long as no numeric observation
\* broke the run, empty cells and cells of other types left aside
SequentialState ==
    \A i \in 1..Len(acc) :
        LET ns == NumbersObserved(rows, RawKey(acc[i]))
        IN /\ acc[i].numCount = Len(ns)
           /\ acc[i].isSequential = NoViolation(ns)

\* a column whose isSequential is false keeps it false
SequentialStaysFalse ==
    \A i \in 1..Len(acc) : ~acc[i].isSequential => ~acc'[i].isSequential

\* the descriptors of Number and Date columns carry sequential: true exactly
\* for two or more numeric observations without a violation
SequentialReported ==
    pc = "resolved" =>
        \A i \in 1..Len(results.cols) :
            LET d == results.cols[i]
                ns == NumbersObserved(rows, RawKey(d))
            IN /\ d.type \in {"Number", "Date"} => "sequential" \in d.has
               /\ "sequential" \in d.has => d.sequential = (Len(ns) >= 2 /\ NoViolation(ns))

\* C12: over the accumulation of a column isSequential starts true, becomes
\* false at the first numeric observation that is not exactly 1 greater than
\* the one before it (empty cells in between are ignored) and never returns
\* to true; the descriptor of a Number or Date column reports sequential true
\* exactly when at least 2 numeric observations were made without violation.
C12_Sequential ==
    /\ []SequentialState
    /\ [][SequentialStaysFalse]_vars
    /\ []SequentialReported

\* "6", "5", "6": the run was broken at the second number, the third is 1
\* greater than the second, and the descriptor reports sequential false
C12_Witness ==
    /\ pc = "resolved"
    /\ ColumnCells(rows, KeyAge) = <<Six, Five, Six>>
    /\ ~AccGet(acc, KeyAge).isSequential
    /\ results.cols[1].type = "Number" /\ ~results.cols[1].sequential

\* "5", "", "6": the empty cell does not break the run
C12_WitnessEmptyBetween ==
    /\ pc = "resolved"
    /\ ColumnCells(rows, KeyAge) = <<Five, Empty, Six>>
    /\ results.cols[1].type = "Number" /\ results.cols[1].sequential

\* the raw keys present on the rows of a dataset
KeysOf(rs) == UNION {{rs[i].cells[j].k : j \in 1..Len(rs[i].cells)} : i \in 1..Len(rs)}

\* the descriptors of the column of the raw key col
DescriptorsFor(cols, col) == {i \in 1..Len(cols) : RawKey(cols[i]) = col}

\* C13 as claimed: a key present on rows whose value is empty in every row
\* is emitted, when dropEmptyColumns is false, as a descriptor of type String
\* with format null, an empty tally and completeness, distinctCount and
\* cardinality 0, and is omitted when dropEmptyColumns is true.
C13_EmptyColumn ==
    pc = "resolved" =>
        \A col \in KeysOf(rows) :
            Observations(rows, col) = <<>> =>
                IF options.dropEmptyColumns
                THEN DescriptorsFor(results.cols, col) = {}
                ELSE \E i \in DescriptorsFor(results.cols, col) :
                        /\ results.cols[i].type = "String"
                        /\ results.cols[i].format = NoFormat
                        /\ results.cols[i].tally = <<>>
                        /\ RatioEq(results.cols[i].completeness, Ratio(0, 1))
                        /\ results.cols[i].distinctCount = 0
                        /\ RatioEq(results.cols[i].cardinality, Ratio(0, 1))

\* the one row {name: ""} has been resolved without dropEmptyColumns and
\* the schema is empty
C13_FailingInput ==
    /\ pc = "resolved"
    /\ ~options.dropEmptyColumns
    /\ rows = <<ObjectRow(<<[k |-> KeyName, v |-> Empty]>>)>>
    /\ results.cols = <<>>

\* the dataset with every entry that is not an object replaced by a row
\* without keys, which contributes no observation
Blanked(rs) == [i \in 1..Len(rs) |-> IF rs[i].kind = "object" THEN rs[i] ELSE ObjectRow(<<>>)]

\* C14 as claimed: on a dataset with entries that are not objects (null,
\* undefined, numbers, strings) among its rows getSchema completes without
\* raising, whatever the column types and the options, and returns the
\* descriptors it returns when those entries contribute no observation.
C14_MalformedRowsSkipped ==
    pc \in {"resolved", "raised"} =>
        /\ pc = "resolved"
        /\ results = getSchema(Blanked(rows), options)

\* getSchema has raised on [null, {when: "2020-01-01"}]
C14_FailingInput ==
    /\ pc = "raised"
    /\ rows = <<NullRow, ObjectRow(<<[k |-> KeyWhen, v |-> IsoDate]>>)>>
    /\ ~getSchema(Blanked(rows), options).raised

\* C15 as claimed: on a dataset with entries that are not objects among its
\* rows dataFormat completes without raising and returns one output entry
\* per input entry.
C15_FormatMalformedRows ==
    pc \in {"formatted", "formatRaised"} =>
        /\ pc = "formatted"
        /\ Len(out.rows) = Len(rows)

\* dataFormat has raised on [null, {col: "Alice"}]
C15_FailingInput ==
    /\ pc = "formatRaised"
    /\ rows = <<NullRow, ObjectRow(<<[k |-> KeyCol, v |-> Alice]>>)>>
    /\ ~getSchema(rows, options).raised

\* C16 as claimed: a descriptor has the field probably only when its score
\* is less than 1; a column whose non-empty values share one format label
\* (score 1) has no probably, whatever its type.
C16_ProbablyBelowOne ==
    pc = "resolved" =>
        \A i \in 1..Len(results.cols) :
            "probably" \in results.cols[i].has => RatioLess(results.cols[i].score, Ratio(1, 1))

\* the one row {name: "Alice"} has been resolved as a String column with
\* score 1 and probably "Text"
C16_FailingInput ==
    /\ pc = "resolved"
    /\ rows = <<ObjectRow(<<[k |-> KeyName, v |-> Alice]>>)>>
    /\ results.cols[1].type = "String"
    /\ RatioEq(results.cols[1].score, Ratio(1, 1))
    /\ "probably" \in results.cols[1].has
    /\ results.cols[1].probably = Probably("Text", <<>>)

\* /^-?\d+(\.\d+)?$/ on a string cell
IsStrictNumeric(v) == v.t = "string" /\ IsSignedDecimal(v.s) /\ v.s[1] # "+"

\* C17 as claimed: with preferStringNumbers true a column in which the value
\* of every row is empty or a strict numeric string is resolved as Number,
\* and a column with any other non-empty value is resolved as String.
C17_PreferStringNumbers ==
    (pc = "resolved" /\ options.preferStringNumbers) =>
        \A i \in 1..Len(results.cols) :
            LET cells == ColumnCells(rows, RawKey(results.cols[i]))
                allNumeric == \A k \in 1..Len(cells) : ~NonEmpty(cells[k]) \/ IsStrictNumeric(cells[k])
            IN results.cols[i].type = (IF allNumeric THEN "Number" ELSE "String")

\* with preferStringNumbers the one row {amount: "5"} has been resolved as a
\* String column of format Text
C17_FailingInput ==
    /\ pc = "resolved"
    /\ options.preferStringNumbers
    /\ rows = <<ObjectRow(<<[k |-> KeyAmount, v |-> Five]>>)>>
    /\ results.cols[1].type = "String" /\ results.cols[1].format = "Text"

\* the keys of a row
RowKeys(row) == {row.cells[j].k : j \in 1..Len(row.cells)}

\* the value dataFormat writes for the cell val of the column c (lines 114-120)
Coerced(c, val) ==
    IF c.type = "Number" THEN normalizeNumber(val, options.numberEmptyAsNull)
    ELSE IF c.type = "Boolean" THEN normalizeBoolean(val)
    ELSE val

\* C19 as claimed: with sanitizeKeys true, for every column c of the schema
\* and every input row that has the raw key c.sourceName (the empty string
\* included), the output row has the key c.name holding the coerced value of
\* that raw cell, and the output row has no key that is not a column name.
C19_SanitizedKeys ==
    (pc = "formatted" /\ options.sanitizeKeys) =>
        LET schema == getSchema(rows, options).cols
        IN \A i \in 1..Len(rows) :
              /\ \A j \in 1..Len(schema) :
                    RowHas(rows[i], schema[j].sourceName.s) =>
                        /\ RowHas(out.rows[i], schema[j].name)
                        /\ RowGet(out.rows[i], schema[j].name)
                              = Coerced(schema[j], RowGet(rows[i], schema[j].sourceName.s))
              /\ RowKeys(out.rows[i]) \subseteq {schema[k].name : k \in 1..Len(schema)}

\* under sanitizeKeys the row {"": "5", "col": "Alice"} has been formatted:
\* the column col has the source name "" and its output cell is not 5
C19_FailingInput ==
    /\ pc = "formatted"
    /\ options.sanitizeKeys
    /\ rows = <<ObjectRow(<<[k |-> KeyEmpty, v |-> Five], [k |-> KeyCol, v |-> Alice]>>)>>
    /\ getSchema(rows, options).cols[1].name = KeyCol
    /\ getSchema(rows, options).cols[1].sourceName = Str(KeyEmpty)
    /\ getSchema(rows, options).cols[1].type = "Number"
    /\ RowGet(out.rows[1], KeyCol) # Num(5, 1)

\* C18 as claimed: with dropEmptyColumns true every output row of dataFormat
\* has only keys of columns with at least one non-empty observation in the
\* dataset, and a row that has the key of such a column keeps it, also when
\* the cell of that row is empty.
C18_DropEmptyColumns ==
    (pc = "formatted" /\ options.dropEmptyColumns) =>
        LET schema == getSchema(rows, options).cols
            observed == {j \in 1..Len(schema) : Observations(rows, RawKey(schema[j])) # <<>>}
        IN \A i \in 1..Len(rows) :
              /\ RowKeys(out.rows[i]) \subseteq {schema[j].name : j \in observed}
              /\ \A j \in observed :
                    RowHas(rows[i], RawKey(schema[j])) => RowHas(out.rows[i], schema[j].name)

\* under sanitizeKeys and dropEmptyColumns the rows {"": "5"} and {"": ""}
\* have been formatted: the column col of the raw key "" has an observation
\* and neither output row has the key col
C18_FailingInput ==
    /\ pc = "formatted"
    /\ options.sanitizeKeys /\ options.dropEmptyColumns
    /\ rows = <<ObjectRow(<<[k |-> KeyEmpty, v |-> Five]>>), ObjectRow(<<[k |-> KeyEmpty, v |-> Empty]>>)>>
    /\ getSchema(rows, options).cols[1].name = KeyCol
    /\ out.rows = <<ObjectRow(<<>>), ObjectRow(<<>>)>>

\* without sanitizeKeys the row {col: ""} of a dataset where col has an
\* observation keeps its key, and the all-empty column "" is dropped
C18_KeptEmptyCell ==
    /\ pc = "formatted"
    /\ ~options.sanitizeKeys /\ options.dropEmptyColumns
    /\ rows = <<ObjectRow(<<[k |-> KeyCol, v |-> Alice]>>),
                ObjectRow(<<[k |-> KeyCol, v |-> Empty], [k |-> KeyEmpty, v |-> Empty]>>)>>
    /\ out.rows[2] = ObjectRow(<<[k |-> KeyCol, v |-> Empty]>>)

\* every entry of the dataset is a row
AllRows(rs) == \A i \in 1..Len(rs) : rs[i].kind = "object"

\* C20 as claimed: for every non-empty sequence of raw rows and every option
\* set, toJSONSchema(rows, options) is the JSON Schema toJSONSchema returns
\* for getSchema(rows, options), whatever the columns are called.
C20_RowsInferredFirst ==
    (pc \in {"converted", "convertRaised"} /\ rows # <<>> /\ AllRows(rows)) =>
        json = SchemaOfInferred(getSchema(rows, options))

\* toJSONSchema([{name: "Alice"}]) has returned the property "Alice" without
\* lengths and nothing required, where the schema of the column name gives
\* the property "name" with the lengths 5 and 5, required
C20_FailingInput ==
    /\ pc = "converted"
    /\ rows = <<ObjectRow(<<[k |-> KeyName, v |-> Alice]>>)>>
    /\ json.properties = <<[k |-> Alice.s, v |-> StringSchema(ColumnOfEntry(rows[1]))]>>
    /\ json.required = <<>>
    /\ SchemaOfInferred(getSchema(rows, options)).properties
          = <<[k |-> KeyName,
              v |-> [StringSchema(ColumnOfEntry(rows[1])) EXCEPT !.minLength = Num(5, 1), !.maxLength = Num(5, 1)]]>>
    /\ SchemaOfInferred(getSchema(rows, options)).required = <<KeyName>>

\* a dataset whose first row has no key "name" has been inferred first: the
\* Date column when of "2020-01-01" and "10:30" is a string without format
C20_InferredFirst ==
    /\ pc = "converted"
    /\ ColumnCells(rows, KeyWhen) = <<IsoDate, TenThirty>>
    /\ Len(rows) = 2
    /\ json.properties[1].k = KeyWhen
    /\ json.properties[1].v.type = "string"
    /\ json.required = <<KeyWhen>>

\* the options with useNullMarkersForInference: true added
UsingNullMarkers(opts) ==
    [k \in DOMAIN opts \cup {"useNullMarkersForInference"} |->
        IF k = "useNullMarkersForInference" THEN TRUE ELSE opts[k]]

\* the cells of a column that are not the null marker "N/A"
Unmarked(rs, col) == SelectSeq(Observations(rs, col), LAMBDA v : v # NotAvailable)

\* C21 as claimed: with useNullMarkersForInference true the cells that are
\* a null marker are skipped by the inference, so for a column that holds
\* such a marker the tally counts the other non-empty cells only and the
\* result is not the result of useNullMarkersForInference false.
C21_NullMarkersSkipped ==
    (pc = "resolved" /\ \E i \in 1..Len(rows) : RowGet(rows[i], KeyAmount) = NotAvailable) =>
        LET marked == getSchema(rows, UsingNullMarkers(options))
        IN /\ marked # results
           /\ \A i \in 1..Len(marked.cols) :
                 MapSum(marked.cols[i].tally) = Len(Unmarked(rows, RawKey(marked.cols[i])))

\* the column of "5" and "N/A" has been resolved; with the option true the
\* schema is the same mixed column counting both cells
C21_FailingInput ==
    /\ pc = "resolved"
    /\ ColumnCells(rows, KeyAmount) = <<Five, NotAvailable>>
    /\ getSchema(rows, UsingNullMarkers(options)) = results
    /\ results.cols[1].format = "mixed"
    /\ MapSum(results.cols[1].tally) = 2

(***************************************************************************)
(* detectTypeAndFormat and guessDateFormatFromString as a machine of their *)
(* own: an argument is drawn, the call returns.  The arguments are native  *)
(* values, the strings of at most MaxLen characters of NormAlphabet, one   *)
(* text for each rule of the classifier, and the dates A sep B sep 2020.   *)
(***************************************************************************)
ClassifyTexts ==
    {<<"t", "r", "u", "e">>, <<"F", "A", "L", "S", "E">>, <<" ", "T", "r", "u", "e", " ">>,
     <<"1", "0", ":", "3", "0">>, <<"1", "0", ":", "3", "0", " ", "P", "M">>,
     <<"2", "0", "2", "0", "-", "0", "1", "-", "3", "1">>,
     <<"2", "0", "2", "0", "/", "0", "1", "/", "3", "1">>,
     <<"2", "0", "0", "0">>, <<"$", "1", ",", "0", "0", "0">>, <<"1", "2", ".", "5", " ", "%">>,
     <<"5", " ", "U", "S", "D">>, <<"1", "2", "3", "4", "5", "6", "7", "8", "9">>,
     <<"+", "1", " ", "(", "2", ")", " ", "3", "4", "5", "-", "6", "7">>,
     <<"2", "0", "1", "1", "-", "1", "2">>, <<"2", "0", "1", "1", "endash", "1", "2">>,
     <<"h", "t", "t", "p", ":", "/", "/", "a">>, <<"a", "@", "b", ".", "c", "o">>,
     <<"1", ".", "2", ".", "3", ".", "4">>, <<"#", "f", "f", "0", "0", "A", "A">>,
     <<"d", "a", "t", "a", ":", "i", "m", "a", "g", "e", "/", "p", "n", "g">>,
     <<"d", "a", "t", "a", ":", "a", "u", "d", "i", "o">>,
     <<"d", "a", "t", "a", ":", "v", "i", "d", "e", "o">>,
     <<"{", "}">>, <<"[", "1", ",", "2", "]">>, <<"{", "a", "}">>,
     <<"A", "l", "i", "c", "e">>, <<"a", ",", "b">>, <<"H", "i", "!", " ", "y", "o", "u">>,
     <<"N", "/", "A">>}

\* the one or two digits of a day or a month, with the number they denote
DayMonthParts ==
    {[text |-> <<"1">>, n |-> 1], [text |-> <<"0", "5">>, n |-> 5], [text |-> <<"1", "2">>, n |-> 12],
     [text |-> <<"1", "3">>, n |-> 13], [text |-> <<"3", "1">>, n |-> 31]}

DateSeparators == {"/", "-"}

\* the strings A sep B sep 2020
DayMonthArguments ==
    {[value |-> Str(a.text \o <<sep>> \o b.text \o <<sep, "2", "0", "2", "0">>),
      a |-> a.n, sep |-> sep, b |-> b.n] :
        a \in DayMonthParts, b \in DayMonthParts, sep \in DateSeparators}

ClassifyArguments ==
    {Null, Undefined, Bool(TRUE), Bool(FALSE), Num(5, 1), Num(15, 10), Num(2000, 1)}
    \cup {Str(s) : s \in StringsUpTo(MaxLen)}
    \cup {Str(s) : s \in ClassifyTexts}
    \cup {x.value : x \in DayMonthArguments}

InitClassify ==
    /\ arg \in [value : ClassifyArguments, preferStringNumbers : BOOLEAN]
    /\ ret = Null
    /\ pc = "call"
    /\ universe = [keys |-> {}, values |-> {}, kinds |-> {}]
    /\ options = [preferStringNumbers |-> FALSE, sanitizeKeys |-> FALSE,
                  dropEmptyColumns |-> FALSE, numberEmptyAsNull |-> TRUE]
    /\ rows = <<>>
    /\ acc = <<>>
    /\ usedSanitized = {}
    /\ originalToSanitized = <<>>
    /\ results = [raised |-> FALSE, cols |-> <<>>]
    /\ out = [raised |-> FALSE, rows |-> <<>>]
    /\ out2 = [raised |-> FALSE, rows |-> <<>>]
    /\ json = NoJSON

\* detectTypeAndFormat(value, preferStringNumbers)
Classify ==
    /\ pc = "call"
    /\ ret' = detectTypeAndFormat(arg.value, arg.preferStringNumbers)
    /\ pc' = "classified"
    /\ UNCHANGED <<universe, options, rows, acc, usedSanitized, originalToSanitized, results, out, out2, json, arg>>

\* guessDateFormatFromString(s) for a string s
Guess ==
    /\ pc = "call"
    /\ arg.value.t = "string"
    /\ ret' = guessDateFormatFromString(arg.value.s)
    /\ pc' = "guessed"
    /\ UNCHANGED <<universe, options, rows, acc, usedSanitized, originalToSanitized, results, out, out2, json, arg>>

NextClassify == Classify \/ Guess

SpecClassify == InitClassify /\ [][NextClassify]_vars

BaseTypeNames == {"String", "Number", "Boolean", "Date"}

\* the trimmed text matches one of the String subformats of the classifier
HasSubformat(vStr) ==
    \/ IsFinancialYear(vStr) \/ IsURL(vStr) \/ IsEmail(vStr) \/ IsDottedQuad(vStr, 4)
    \/ IsPhoneNumber(vStr) \/ IsColor(vStr)
    \/ \E kind \in {<<"i", "m", "a", "g", "e">>, <<"a", "u", "d", "i", "o">>, <<"v", "i", "d", "e", "o">>} :
          StartsWith(vStr, DataPrefix(kind))
    \/ (vStr[1] \in {"{", "["} /\ Last(vStr) \in {"}", "]"} /\ JSONParses(vStr))

\* the type the rules give in the order Boolean, Date, Number, String
TypeInOrder(value, vStr, preferStringNumbers) ==
    IF value.t = "boolean" \/ ToLower(vStr) \in {<<"t", "r", "u", "e">>, <<"f", "a", "l", "s", "e">>}
    THEN "Boolean"
    ELSE IF DateFormatOfTrimmed(vStr) # NoFormat THEN "Date"
    ELSE IF ~preferStringNumbers /\ (value.t = "number" \/ NumberFormatOfString(vStr) # NoFormat)
    THEN "Number"
    ELSE "String"

C22_WitnessNumberFirst ==
    /\ pc = "classified"
    /\ arg.value = Str(<<"1", "2", "3", "4", "5", "6", "7", "8", "9">>)
    /\ ~arg.preferStringNumbers
    /\ ret = TF("Number", "Integer")

\* "N/A" matches no subformat and is String, "Text"
C22_WitnessText ==
    /\ pc = "classified"
    /\ arg.value = NotAvailable
    /\ ret = TF("String", "Text")

\* C25 as claimed: for A sep B sep YYYY the guesser returns the day-first
\* format whenever A > 12, and the month-first format when A <= 12 (B > 12
\* or both at most 12).
C25_DayOrMonthFirst ==
    pc = "guessed" =>
        \A x \in DayMonthArguments :
            x.value = arg.value =>
                ret = (IF x.a > 12 THEN "%d" \o x.sep \o "%m" \o x.sep \o "%Y"
                                   ELSE "%m" \o x.sep \o "%d" \o x.sep \o "%Y")

\* "13/31/2020" has been guessed as month-first although 13 is no month
C25_FailingInput ==
    /\ pc = "guessed"
    /\ arg.value = Str(<<"1", "3", "/", "3", "1", "/", "2", "0", "2", "0">>)
    /\ ret = "%m/%d/%Y"

\* the number of cells of a column classified with format f
FormatCount(cls, f) == Cardinality({k \in 1..Len(cls) : cls[k].format = f})

\* Percentage is counted more often than every other format of the column
PercentageDominates(cls) ==
    \A k \in 1..Len(cls) :
        cls[k].format # "Percentage" => FormatCount(cls, cls[k].format) < FormatCount(cls, "Percentage")

\* C23 as claimed: a column whose string observations are all delimited
\* lists has probably "List" (unless the percentages dominate), and a mixed
\* column in which Percentage is the most frequent format has probably
\* "Percentage".
C23_ListOrPercentage ==
    pc = "resolved" =>
        \A i \in 1..Len(results.cols) :
            LET d == results.cols[i]
                obs == Observations(rows, RawKey(d))
                cls == Classes(rows, RawKey(d))
                strs == {k \in 1..Len(cls) : cls[k].type = "String"}
                lists == {k \in strs : isLikelyList(Trim(StringOf(obs[k])))}
                mixed == Cardinality({cls[k].type : k \in 1..Len(cls)}) > 1
            IN /\ (strs # {} /\ lists = strs /\ ~(mixed /\ PercentageDominates(cls))) =>
                    ("probably" \in d.has /\ d.probably = Probably("List", <<>>))
               /\ (mixed /\ PercentageDominates(cls)) =>
                    ("probably" \in d.has /\ d.probably = Probably("Percentage", <<>>))

\* the column of the lists "a,b" and "c;d" has been resolved with probably
\* "Text"
C23_FailingInput ==
    /\ pc = "resolved"
    /\ ColumnCells(rows, KeyName) = <<ListAB, ListCD>>
    /\ isLikelyList(ListAB.s) /\ isLikelyList(ListCD.s)
    /\ results.cols[1].type = "String"
    /\ results.cols[1].probably = Probably("Text", <<>>)

\* a mixed column of a list and two percentages has probably "Percentage"
C23_PercentageDominant ==
    /\ pc = "resolved"
    /\ ColumnCells(rows, KeyName) = <<ListAB, TwelvePercent, TwelvePercent>>
    /\ results.cols[1].format = "mixed"
    /\ results.cols[1].probably = Probably("Percentage", <<>>)

\* the keys of the cells of a dataset in the order they are read
RECURSIVE CellKeys(_)
CellKeys(rs) ==
    IF rs = <<>> THEN <<>>
    ELSE [j \in 1..Len(rs[1].cells) |-> rs[1].cells[j].k] \o CellKeys(Tail(rs))

\* the distinct keys of a sequence of keys in the order of their first occurrence
RECURSIVE Encountered(_)
Encountered(ks) ==
    IF ks = <<>> THEN <<>>
    ELSE LET e == Encountered(SubSeq(ks, 1, Len(ks) - 1))
         IN IF Last(ks) \in Range(e) THEN e ELSE Append(e, Last(ks))

\* the keys up to the i-th that have the sanitized base of the i-th
SameBase(order, i) == {j \in 1..i : sanitizeKey(order[j]) = sanitizeKey(order[i])}

Suffixed(base, n) == base \o <<"_">> \o NatToDigits(n)

\* every raw key read has one sanitized name, under which all its non-empty
\* cells are accumulated, and no two raw keys have the same sanitized name
MemoizedAndDistinct(order) ==
    /\ DOMAIN originalToSanitized = Range(order)
    /\ usedSanitized = Range(originalToSanitized)
    /\ \A i, j \in 1..Len(order) :
          i # j => originalToSanitized[order[i]] # originalToSanitized[order[j]]
    /\ \A i \in 1..Len(order) :
          \A k \in 1..Len(acc) :
              (acc[k].sourceName = Str(order[i])) <=> (acc[k].name = originalToSanitized[order[i]])
    /\ \A i \in 1..Len(order) :
          Observations(rows, order[i]) # <<>> =>
              \E k \in 1..Len(acc) :
                  /\ acc[k].sourceName = Str(order[i])
                  /\ acc[k].nonEmptyCount = Len(Observations(rows, order[i]))

\* C24 as claimed: under sanitizeKeys every raw key has one sanitized name
\* for all rows, distinct raw keys have distinct sanitized names, and the
\* n-th raw key (n >= 2) of sanitized base B is named B_n.
C24_SuffixIsRank ==
    (pc = "accumulate" /\ options.sanitizeKeys) =>
        LET order == Encountered(CellKeys(rows))
        IN /\ MemoizedAndDistinct(order)
           /\ \A i \in 1..Len(order) :
                 Cardinality(SameBase(order, i)) >= 2 =>
                     originalToSanitized[order[i]]
                         = Suffixed(sanitizeKey(order[i]), Cardinality(SameBase(order, i)))

\* C24 amended: under sanitizeKeys every raw key has one sanitized name for
\* all rows, distinct raw keys have distinct sanitized names, and a raw key
\* of sanitized base B is named by the first of B, B_2, B_3, ... that is
\* not the sanitized name of a key read before it.
C24_SuffixIsFirstFree ==
    (pc = "accumulate" /\ options.sanitizeKeys) =>
        LET order == Encountered(CellKeys(rows))
        IN /\ MemoizedAndDistinct(order)
           /\ \A i \in 1..Len(order) :
                 LET base == sanitizeKey(order[i])
                     earlier == {originalToSanitized[order[j]] : j \in 1..(i - 1)}
                     candidates == [m \in 1..(i + 1) |-> IF m = 1 THEN base ELSE Suffixed(base, m)]
                 IN \E m \in 1..(i + 1) :
                       /\ originalToSanitized[order[i]] = candidates[m]
                       /\ candidates[m] \notin earlier
                       /\ \A l \in 1..(m - 1) : candidates[l] \in earlier

\* the keys "col", "col_2" and " col" have been read in that order: " col"
\* is the second key of base "col" and is named col_3
C24_Witness ==
    /\ pc = "accumulate" /\ options.sanitizeKeys
    /\ Encountered(CellKeys(rows)) = <<KeyCol, KeyCol2, KeyColPadded>>
    /\ originalToSanitized[KeyCol] = KeyCol
    /\ originalToSanitized[KeyCol2] = KeyCol2
    /\ originalToSanitized[KeyColPadded] = <<"c", "o", "l", "_", "3">>

\* the keys "col", " col" and "col_2" have been read in that order and are
\* named col, col_2 and col_2_2
C24_WitnessByRank ==
    /\ pc = "accumulate" /\ options.sanitizeKeys
    /\ Encountered(CellKeys(rows)) = <<KeyCol, KeyColPadded, KeyCol2>>
    /\ originalToSanitized[KeyColPadded] = KeyCol2
    /\ originalToSanitized[KeyCol2] = <<"c", "o", "l", "_", "2", "_", "2">>

\* the key under which dataFormat is to write the cell of the raw key k
OutputKey(k) == IF options.sanitizeKeys THEN originalToSanitized[k] ELSE k

\* C26 as claimed: without dropEmptyColumns every output row of dataFormat
\* has one key for each key of its input row, the sanitized name of the key
\* under sanitizeKeys, also for the columns that are empty in every row.
C26_EveryKeyKept ==
    (pc = "formatted" /\ ~options.dropEmptyColumns) =>
        \A i \in 1..Len(rows) :
            /\ \A k \in RowKeys(rows[i]) : RowHas(out.rows[i], OutputKey(k))
            /\ Cardinality(RowKeys(out.rows[i])) = Cardinality(RowKeys(rows[i]))

\* under sanitizeKeys, without dropEmptyColumns, the row {col: ""} has been
\* formatted and the output row has no key
C26_FailingInput ==
    /\ pc = "formatted"
    /\ options.sanitizeKeys /\ ~options.dropEmptyColumns
    /\ rows = <<ObjectRow(<<[k |-> KeyCol, v |-> Empty]>>)>>
    /\ getSchema(rows, options).cols = <<>>
    /\ out.rows = <<ObjectRow(<<>>)>>

\* without sanitizeKeys the same row keeps its key
C26_KeptUnsanitized ==
    /\ pc = "formatted"
    /\ ~options.sanitizeKeys /\ ~options.dropEmptyColumns
    /\ rows = <<ObjectRow(<<[k |-> KeyCol, v |-> Empty]>>)>>
    /\ out.rows = <<ObjectRow(<<[k |-> KeyCol, v |-> Empty]>>)>>

\* C27 as claimed: a descriptor whose format is a single label (not null,
\* not "mixed") has that label as the only key of its tally, counted once
\* for every non-empty cell of the column, also when the column was
\* upgraded to Date by the year heuristic.
C27_FormatIsTallyKey ==
    pc = "resolved" =>
        \A i \in 1..Len(results.cols) :
            LET d == results.cols[i]
            IN d.format \notin {NoFormat, "mixed"} =>
                  d.tally = <<[k |-> d.format, c |-> Len(Observations(rows, RawKey(d)))]>>

\* the column of "1999" and "2000" has been resolved as Date with format
\* "%Y" and the tally {Integer: 2}
C27_FailingInput ==
    /\ pc = "resolved"
    /\ ColumnCells(rows, KeyYear) = <<Y1999, Y2000>>
    /\ results.cols[1].type = "Date"
    /\ results.cols[1].format = "%Y"
    /\ results.cols[1].tally = <<[k |-> "Integer", c |-> 2]>>

\* C28 as claimed: a descriptor with isUnique true has no value counted
\* more than once in topK, also when the cells of a Number column write
\* the same number differently.
C28_UniqueHasNoRepeat ==
    pc = "resolved" =>
        \A i \in 1..Len(results.cols) :
            results.cols[i].isUnique =>
                \A j \in 1..Len(results.cols[i].topK) : results.cols[i].topK[j].c = 1

\* the column of "5" and "5.0" has been resolved with isUnique true and
\* the value 5 counted twice in topK
C28_FailingInput ==
    /\ pc = "resolved"
    /\ ColumnCells(rows, KeyAmount) = <<Five, FivePointO>>
    /\ results.cols[1].type = "Number"
    /\ results.cols[1].distinctCount = 2
    /\ results.cols[1].isUnique
    /\ results.cols[1].topK = <<[k |-> <<"5">>, c |-> 2]>>

\* the descriptors of a schema with the name and the type given
Typed(cols, name, type) == {j \in 1..Len(cols) : cols[j].name = name /\ cols[j].type = type}

\* C29 as claimed: every column that getSchema types as Number on a dataset
\* is typed Number by getSchema on the output of dataFormat for the dataset.
C29_NumberStaysNumber ==
    (pc = "formatted" /\ ~options.sanitizeKeys /\ ~options.preferStringNumbers) =>
        LET before == getSchema(rows, options).cols
            after == getSchema(out.rows, options).cols
        IN \A i \in 1..Len(before) :
              before[i].type = "Number" => Typed(after, before[i].name, "Number") # {}

\* the row {amount: "$2000"} has been formatted: the column is Number with
\* format "Currency" on the dataset and Date with format "%Y" on the output
C29_FailingInput ==
    /\ pc = "formatted"
    /\ ~options.sanitizeKeys /\ ~options.preferStringNumbers
    /\ rows = <<ObjectRow(<<[k |-> KeyAmount, v |-> Y2000Dollars]>>)>>
    /\ getSchema(rows, options).cols[1].type = "Number"
    /\ getSchema(rows, options).cols[1].format = "Currency"
    /\ out.rows = <<ObjectRow(<<[k |-> KeyAmount, v |-> Num(2000, 1)]>>)>>
    /\ getSchema(out.rows, options).cols[1].type = "Date"
    /\ getSchema(out.rows, options).cols[1].format = "%Y"

\* the rows of a dataset that hold a non-empty cell for the raw key col
ObservedRows(rs, col) ==
    {i \in 1..Len(rs) : rs[i].kind = "object" /\ RowHas(rs[i], col) /\ NonEmpty(RowGet(rs[i], col))}

\* 0 < r <= 1
InUnitInterval(r) == RatioLess(Ratio(0, 1), r) /\ ~RatioLess(Ratio(1, 1), r)

C30_WitnessSkippedEntry ==
    /\ pc = "resolved"
    /\ rows = <<NullRow, ObjectRow(<<[k |-> KeyWhen, v |-> Five]>>)>>
    /\ RatioEq(results.cols[1].completeness, Ratio(1, 2))
    /\ RatioEq(results.cols[1].uniquenessRatio, Ratio(1, 2))

====
